---- MODULE Spec2Model ----
(***************************************************************************)
(* A model of the pgxtypefaster hstore codec: the text parser, the binary  *)
(* reader, the text and binary writers, in both representation variants    *)
(* (Hstore = map[string]pgtype.Text, HstoreCompat = map[string]*string).   *)
(*                                                                         *)
(* Strings and byte slices are sequences of bytes (0..255).  Go indexes    *)
(* from 0, TLA+ sequences from 1: position pos of the code is element      *)
(* pos+1 of the sequence.                                                  *)
(***************************************************************************)
EXTENDS Integers, Sequences, FiniteSets, TLC

VARIABLES
    op,       \* the operation that produced this state
    variant,  \* "hstore" or "compat": which codec / type the operation used
    format,   \* "text" or "binary"
    value,    \* the mapping handed to the encoder (or to Value)
    buf0,     \* the caller-supplied buffer handed to Encode
    wire,     \* the bytes produced by Encode, or handed to Scan
    target,   \* the scan target (*Hstore or *HstoreCompat) after the operation
    before,   \* the scan target before the operation
    calls,    \* how many times ScanHstore / ScanHstoreCompat was called by it
    err,      \* the error the operation returned (or the panic it raised)
    ret,      \* what an operation other than Encode and Scan returned
    typeMap,  \* the types registered in the connection's type map
    parser    \* the hstoreParser of the parse in progress, with its place in the code

vars == <<op, variant, format, value, buf0, wire, target, before, calls, err, ret, typeMap,
          parser>>

----------------------------------------------------------------------------
(* Bytes of the text grammar *)

DQ == 34
BS == 92
COMMA == 44
SP == 32
EQ == 61
GT == 62
BN == 78
BU == 85
BL == 76

uint32Len == 4

\* pgtype.TextFormatCode and pgtype.BinaryFormatCode
TextFormatCode == 0
BinaryFormatCode == 1

----------------------------------------------------------------------------
(* Bounds of the model *)

\* the largest number of pairs of a mapping handed to an encoder
MaxPairs == 2
\* the largest number of pairs of a well-formed text handed to the text parser
MaxTextPairs == 2

----------------------------------------------------------------------------
(* Go slices and strings *)

\* s[lo:hi] of Go
Slice(s, lo, hi) == SubSeq(s, lo + 1, hi)

\* s[lo:hi] panics unless 0 <= lo <= hi <= len(s)
SliceOK(s, lo, hi) == 0 <= lo /\ lo <= hi /\ hi <= Len(s)

\* strings.IndexByte(s, b): index of the first b in s, or -1
IndexByte(s, b) ==
    LET at == {i \in 1..Len(s) : s[i] = b} IN
    IF at = {} THEN -1 ELSE (CHOOSE i \in at : \A j \in at : i <= j) - 1

\* strings.Count(s, ">") for a one-byte pattern
CountByte(s, b) == Cardinality({i \in 1..Len(s) : s[i] = b})

\* a []byte: nil, or a (possibly empty) sequence of bytes
NilBytes == [nil |-> TRUE, bytes |-> <<>>]
Bytes(s) == [nil |-> FALSE, bytes |-> s]

\* append(buf, s...): appending nothing to a nil slice leaves it nil
AppendBytes(buf, s) == [nil |-> buf.nil /\ s = <<>>, bytes |-> buf.bytes \o s]

----------------------------------------------------------------------------
(* Errors *)

Err(kind, expected, found) == [kind |-> kind, expected |-> expected, found |-> found]
NoErr == Err("nil", -1, -1)
\* a plausible slip: the two bytes in each other's place
unexpectedByteErrSwapped(actualB, expectedB) == Err("expected_found", actualB, expectedB)
\* unexpectedByteErr(actualB, expectedB): expected '%c'; found '%c'
unexpectedByteErr(actualB, expectedB) == Err("expected_found", expectedB, actualB)
\* fmt.Errorf("expected '%c' ('%#v'); found end", ...)
ErrExpectedFoundEnd(expectedB) == Err("expected_found_end", expectedB, -1)
\* errors.New("unexpected end of string")
ErrUnexpectedEnd == Err("unexpected end of string", -1, -1)
errEOSInQuoted == Err("found end before closing double-quote", -1, -1)
ErrUnexpectedEscape(b) == Err("unexpected escape in quoted string", -1, b)
ErrEndInsteadOfValue == Err("found end instead of value", -1, -1)
ErrIncomplete == Err("hstore incomplete", -1, -1)
ErrCannotScan == Err("cannot scan", -1, -1)
ErrNoPlan == Err("PlanScan did not find a plan", -1, -1)
\* ErrHstoreDoesNotExist
ErrHstoreDoesNotExist == Err("postgres type hstore does not exist", -1, -1)
\* pgx.ErrNoRows
ErrNoRows == Err("no rows in result set", -1, -1)
\* a run-time panic of the Go program (slice bounds, nil dereference, makeslice)
Panic == Err("panic", -1, -1)

----------------------------------------------------------------------------
(* pgtype.Text and the two mapping types *)

\* pgtype.Text{String: s, Valid: true}
NewText(s) == [String |-> s, Valid |-> TRUE]
\* pgtype.Text{} and pgtype.Text{String: "", Valid: false}
NullText == [String |-> <<>>, Valid |-> FALSE]

EmptyMap == [k \in {} |-> NullText]
\* a plausible slip: an entry the map already holds is kept
MapPutKeepFirst(m, k, v) ==
    [x \in (DOMAIN m) \cup {k} |-> IF x \in DOMAIN m THEN m[x] ELSE v]
\* m[k] = v of a Go map
MapPut(m, k, v) == [x \in (DOMAIN m) \cup {k} |-> IF x = k THEN v ELSE m[x]]

\* Hstore: nil, or a map from key to pgtype.Text
NilHstore == [nil |-> TRUE, m |-> EmptyMap]
Hstore(m) == [nil |-> FALSE, m |-> m]

\* A *string is nil (arr = 0) or the address of element idx of allocation arr.
\* HstoreCompat: nil, or a map from key to *string, with the string allocations
\* its pointers refer to.
NilPtr == [arr |-> 0, idx |-> 0]
Ptr(a, i) == [arr |-> a, idx |-> i]
NilHstoreCompat == [nil |-> TRUE, m |-> EmptyMap, arrays |-> <<>>]
HstoreCompat(m, arrays) == [nil |-> FALSE, m |-> m, arrays |-> arrays]
\* *p
Deref(h, p) == h.arrays[p.arr][p.idx]

\* the range loop of PGXToFasterHstore over the pointer map m, visiting its
\* keys in order: pgtype.Text{Valid: false} for a nil pointer, NewText(*v) else
RECURSIVE PGXToFasterHstoreLoop(_, _, _, _)
PGXToFasterHstoreLoop(m, order, i, h) ==
    IF i > Len(order) THEN Hstore(h)
    ELSE IF m.m[order[i]] = NilPtr
    THEN PGXToFasterHstoreLoop(m, order, i + 1,
                               MapPut(h, order[i], [String |-> <<>>, Valid |-> FALSE]))
    ELSE PGXToFasterHstoreLoop(m, order, i + 1,
                               MapPut(h, order[i], NewText(Deref(m, m.m[order[i]]))))

\* PGXToFasterHstore: h := make(Hstore, len(m)), the loop, return h.  The map
\* made is not nil, whatever m is; a nil m has no keys to range over.
PGXToFasterHstore(m, order) == PGXToFasterHstoreLoop(m, order, 1, EmptyMap)

----------------------------------------------------------------------------
(* The text parser: hstoreParser and its operations.  An operation takes   *)
(* the parser p and returns the parser after it with what the code returns.*)

newHSP(in) == [str |-> in, pos |-> 0, nextBackslash |-> IndexByte(in, BS)]

atEnd(p) == p.pos >= Len(p.str)

\* consume returns the next byte of the string, or end if the string is done.
consume(p) ==
    IF p.pos >= Len(p.str)
    THEN [p |-> p, b |-> 0, end |-> TRUE]
    ELSE [p |-> [p EXCEPT !.pos = p.pos + 1], b |-> p.str[p.pos + 1], end |-> FALSE]

\* a plausible slip: the end of the string read as a zero byte
consumeExpectedByteNoEnd(p, expectedB) ==
    LET c == consume(p) IN
    IF c.b # expectedB THEN [p |-> c.p, err |-> unexpectedByteErr(c.b, expectedB)]
    ELSE [p |-> c.p, err |-> NoErr]

\* consumeExpectedByte consumes expectedB from the string, or returns an error.
consumeExpectedByte(p, expectedB) ==
    LET c == consume(p) IN
    IF c.end THEN [p |-> c.p, err |-> ErrExpectedFoundEnd(expectedB)]
    ELSE IF c.b # expectedB THEN [p |-> c.p, err |-> unexpectedByteErr(c.b, expectedB)]
    ELSE [p |-> c.p, err |-> NoErr]

\* a plausible slip: the second byte is consumed without being compared
consumeExpected2FirstOnly(p, one, two) ==
    IF p.pos + 2 > Len(p.str) THEN [p |-> p, err |-> ErrUnexpectedEnd]
    ELSE IF p.str[p.pos + 1] # one
    THEN [p |-> p, err |-> unexpectedByteErr(p.str[p.pos + 1], one)]
    ELSE [p |-> [p EXCEPT !.pos = p.pos + 2], err |-> NoErr]

\* a plausible slip: the first byte stays consumed when the second is not the
\* expected one
consumeExpected2KeepFirst(p, one, two) ==
    IF p.pos + 2 > Len(p.str) THEN [p |-> p, err |-> ErrUnexpectedEnd]
    ELSE IF p.str[p.pos + 1] # one
    THEN [p |-> p, err |-> unexpectedByteErr(p.str[p.pos + 1], one)]
    ELSE IF p.str[p.pos + 2] # two
    THEN [p |-> [p EXCEPT !.pos = p.pos + 1], err |-> unexpectedByteErr(p.str[p.pos + 2], two)]
    ELSE [p |-> [p EXCEPT !.pos = p.pos + 2], err |-> NoErr]

\* consumeExpected2 consumes two expected bytes or returns an error.
consumeExpected2(p, one, two) ==
    IF p.pos + 2 > Len(p.str) THEN [p |-> p, err |-> ErrUnexpectedEnd]
    ELSE IF p.str[p.pos + 1] # one
    THEN [p |-> p, err |-> unexpectedByteErr(p.str[p.pos + 1], one)]
    ELSE IF p.str[p.pos + 2] # two
    THEN [p |-> p, err |-> unexpectedByteErr(p.str[p.pos + 2], two)]
    ELSE [p |-> [p EXCEPT !.pos = p.pos + 2], err |-> NoErr]

\* a plausible slip: the byte after a backslash is copied whatever it is
RECURSIVE escapeLoopAnyEscape(_, _)
escapeLoopAnyEscape(p, builder) ==
    LET c == consume(p)
        c2 == consume(c.p)
    IN
    IF c.end THEN [p |-> c.p, s |-> <<>>, err |-> errEOSInQuoted]
    ELSE IF c.b = DQ THEN [p |-> c.p, s |-> builder, err |-> NoErr]
    ELSE IF c.b = BS
    THEN IF c2.end THEN [p |-> c2.p, s |-> <<>>, err |-> errEOSInQuoted]
         ELSE escapeLoopAnyEscape(c2.p, Append(builder, c2.b))
    ELSE escapeLoopAnyEscape(c.p, Append(builder, c.b))

\* the for loop of consumeDoubleQuotedWithEscapes: copy bytes until the closing
\* quote, unescaping backslashes
RECURSIVE escapeLoop(_, _)
escapeLoop(p, builder) ==
    LET c == consume(p)
        c2 == consume(c.p)
    IN
    IF c.end THEN [p |-> c.p, s |-> <<>>, err |-> errEOSInQuoted]
    ELSE IF c.b = DQ THEN [p |-> c.p, s |-> builder, err |-> NoErr]
    ELSE IF c.b = BS
    THEN IF c2.end THEN [p |-> c2.p, s |-> <<>>, err |-> errEOSInQuoted]
         ELSE IF ~(c2.b = BS \/ c2.b = DQ)
         THEN [p |-> c2.p, s |-> <<>>, err |-> ErrUnexpectedEscape(c2.b)]
         ELSE escapeLoop(c2.p, Append(builder, c2.b))
    ELSE escapeLoop(c.p, Append(builder, c.b))

\* consumeDoubleQuotedWithEscapes consumes a double-quoted string containing
\* escapes, starting at p.pos, and with the first backslash at firstBackslash.
\* p.str[p.pos:firstBackslash] panics when firstBackslash is before p.pos.
consumeDoubleQuotedWithEscapes(p, firstBackslash) ==
    IF ~SliceOK(p.str, p.pos, firstBackslash)
    THEN [p |-> p, s |-> <<>>, err |-> Panic]
    ELSE escapeLoop([p EXCEPT !.pos = firstBackslash],
                    Slice(p.str, p.pos, firstBackslash))

\* a plausible slip: the cached position is kept as it was after the slow path
refreshNextBackslashStale(r) == r

\* the end of the slow path of consumeDoubleQuoted, r being what
\* consumeDoubleQuotedWithEscapes returned: the cached position of the next
\* backslash is looked up again from p.pos, then s and err are returned
refreshNextBackslash(r) ==
    IF r.err = Panic THEN r
    ELSE [r EXCEPT !.p.nextBackslash =
            IF IndexByte(Slice(r.p.str, r.p.pos, Len(r.p.str)), BS) # -1
            THEN IndexByte(Slice(r.p.str, r.p.pos, Len(r.p.str)), BS) + r.p.pos
            ELSE -1]

\* a plausible slip: the fast path alone, the string being whatever lies before
\* the next double quote
consumeDoubleQuotedFastOnly(p) ==
    LET rel == IndexByte(Slice(p.str, p.pos, Len(p.str)), DQ) IN
    IF rel = -1 THEN [p |-> p, s |-> <<>>, err |-> errEOSInQuoted]
    ELSE [p |-> [p EXCEPT !.pos = rel + p.pos + 1],
          s |-> Slice(p.str, p.pos, rel + p.pos),
          err |-> NoErr]

\* consumeDoubleQuoted consumes a double-quoted string from p. The double quote
\* must have been parsed already.
consumeDoubleQuoted(p) ==
    LET rel == IndexByte(Slice(p.str, p.pos, Len(p.str)), DQ)
        nextDoubleQuote == rel + p.pos
    IN
    IF rel = -1 THEN [p |-> p, s |-> <<>>, err |-> errEOSInQuoted]
    ELSE IF p.nextBackslash = -1 \/ p.nextBackslash > nextDoubleQuote
    THEN [p |-> [p EXCEPT !.pos = nextDoubleQuote + 1],
          s |-> Slice(p.str, p.pos, nextDoubleQuote),
          err |-> NoErr]
    ELSE refreshNextBackslash(consumeDoubleQuotedWithEscapes(p, p.nextBackslash))

\* consumePairSeparator consumes the Hstore pair separator ", " or returns an error.
consumePairSeparator(p) == consumeExpected2(p, COMMA, SP)

\* consumeKVSeparator consumes the Hstore key/value separator "=>" or returns an error.
consumeKVSeparator(p) == consumeExpected2(p, EQ, GT)

\* what consumeDoubleQuotedOrNull returns after its reads of NULL, e being the
\* outcome of the last consumeExpected2 it made
nullValue(e) == [p |-> e.p, value |-> NullText, err |-> e.err]

\* err = p.consumeExpected2('L', 'L'), made when consumeExpected2('N', 'U') = e
\* returned no error
consumeLL(e) == IF e.err # NoErr THEN e ELSE consumeExpected2(e.p, BL, BL)

\* a plausible slip: the quoted string NULL read as the absent value
quotedValueNullWord(r) ==
    [p |-> r.p,
     value |-> IF r.err # NoErr \/ r.s = <<BN, BU, BL, BL>> THEN NullText ELSE NewText(r.s),
     err |-> r.err]

\* what consumeDoubleQuotedOrNull returns for a quoted value, r being what
\* consumeDoubleQuoted returned
quotedValue(r) ==
    [p |-> r.p, value |-> IF r.err # NoErr THEN NullText ELSE NewText(r.s), err |-> r.err]

\* consumeDoubleQuotedOrNull consumes a value: a quoted string or NULL.
consumeDoubleQuotedOrNull(p) ==
    IF atEnd(p) THEN [p |-> p, value |-> NullText, err |-> ErrEndInsteadOfValue]
    ELSE IF p.str[p.pos + 1] = BN
    THEN nullValue(consumeLL(consumeExpected2(p, BN, BU)))
    ELSE IF p.str[p.pos + 1] # DQ
    THEN [p |-> p, value |-> NullText, err |-> unexpectedByteErr(p.str[p.pos + 1], DQ)]
    ELSE quotedValue(consumeDoubleQuoted([p EXCEPT !.pos = p.pos + 1]))

\* One iteration of the pair loop of parseHstore / parseHstoreCompat, up to the
\* point where the pair is stored.  Its steps pass on st: the parser, the key
\* and the value read so far, and the error that ended the iteration, if any.
pairSeparator(p, first) ==
    IF ~first THEN consumePairSeparator(p) ELSE [p |-> p, err |-> NoErr]

pairQuote(st) ==
    IF st.err # NoErr THEN st ELSE consumeExpectedByte(st.p, DQ)

pairKey(st) ==
    IF st.err # NoErr THEN [p |-> st.p, s |-> <<>>, err |-> st.err]
    ELSE consumeDoubleQuoted(st.p)

\* the "=>" after the key k
withKey(k, sep) == [p |-> sep.p, key |-> k.s, err |-> sep.err]
pairKVSeparator(k) ==
    IF k.err # NoErr THEN [p |-> k.p, key |-> k.s, err |-> k.err]
    ELSE withKey(k, consumeKVSeparator(k.p))

\* the value after the key and "=>" of st
withValue(st, v) == [p |-> v.p, key |-> st.key, value |-> v.value, err |-> v.err]
pairValue(st) ==
    IF st.err # NoErr THEN [p |-> st.p, key |-> st.key, value |-> NullText, err |-> st.err]
    ELSE withValue(st, consumeDoubleQuotedOrNull(st.p))

parsePair(p, first) ==
    pairValue(pairKVSeparator(pairKey(pairQuote(pairSeparator(p, first)))))

\* the for !p.atEnd() loop of parseHstore; parseHstoreStore is the end of an
\* iteration, r being the pair it read: return nil, err or result[key] = value
RECURSIVE parseHstoreLoop(_, _, _)
parseHstoreStore(r, result) ==
    IF r.err # NoErr THEN [h |-> NilHstore, err |-> r.err]
    ELSE parseHstoreLoop(r.p, MapPut(result, r.key, r.value), FALSE)

parseHstoreLoop(p, result, first) ==
    IF atEnd(p) THEN [h |-> Hstore(result), err |-> NoErr]
    ELSE parseHstoreStore(parsePair(p, first), result)

parseHstore(s) == parseHstoreLoop(newHSP(s), EmptyMap, TRUE)

\* append(valueStrings, s) on the slice vs = [arr, len, cap] of the allocations
\* arrays: in place while len < cap, else into a new, larger allocation that
\* holds a copy (the old one stays as it was, for the pointers into it)
appendString(arrays, vs, s) ==
    IF vs.len < vs.cap
    THEN [arrays |-> [arrays EXCEPT ![vs.arr] = Append(arrays[vs.arr], s)],
          vs |-> [vs EXCEPT !.len = vs.len + 1]]
    ELSE [arrays |-> Append(arrays, Append(arrays[vs.arr], s)),
          vs |-> [arr |-> Len(arrays) + 1, len |-> vs.len + 1,
                  cap |-> IF vs.cap = 0 THEN 1 ELSE 2 * vs.cap]]

\* the for !p.atEnd() loop of parseHstoreCompat; parseHstoreCompatStore is the
\* end of an iteration, r being the pair it read and a the valueStrings with
\* its value appended: result[key] = &valueStrings[len(valueStrings)-1], or nil
RECURSIVE parseHstoreCompatLoop(_, _, _, _, _)
\* a plausible slip: every key is given the address of the first cell
parseHstoreCompatStoreFirstCell(r, result, arrays, vs, a) ==
    IF r.err # NoErr THEN [h |-> NilHstoreCompat, err |-> r.err]
    ELSE IF r.value.Valid
    THEN parseHstoreCompatLoop(r.p, MapPut(result, r.key, Ptr(a.vs.arr, 1)),
                               a.arrays, a.vs, FALSE)
    ELSE parseHstoreCompatLoop(r.p, MapPut(result, r.key, NilPtr), arrays, vs, FALSE)

parseHstoreCompatStore(r, result, arrays, vs, a) ==
    IF r.err # NoErr THEN [h |-> NilHstoreCompat, err |-> r.err]
    ELSE IF r.value.Valid
    THEN parseHstoreCompatLoop(r.p, MapPut(result, r.key, Ptr(a.vs.arr, a.vs.len)),
                               a.arrays, a.vs, FALSE)
    ELSE parseHstoreCompatLoop(r.p, MapPut(result, r.key, NilPtr), arrays, vs, FALSE)

parseHstoreCompatPair(r, result, arrays, vs) ==
    parseHstoreCompatStore(r, result, arrays, vs, appendString(arrays, vs, r.value.String))

parseHstoreCompatLoop(p, result, arrays, vs, first) ==
    IF atEnd(p) THEN [h |-> HstoreCompat(result, arrays), err |-> NoErr]
    ELSE parseHstoreCompatPair(parsePair(p, first), result, arrays, vs)

parseHstoreCompat(s) ==
    parseHstoreCompatLoop(newHSP(s), EmptyMap, << <<>> >>,
                          [arr |-> 1, len |-> 0, cap |-> CountByte(s, GT)], TRUE)

----------------------------------------------------------------------------
(* The writers *)

\* quoteArrayReplacer.Replace(s): a backslash before every backslash and every
\* double quote, no other byte changed
RECURSIVE quoteArrayReplace(_)
quoteArrayReplace(s) ==
    IF s = <<>> THEN <<>>
    ELSE (IF Head(s) = BS \/ Head(s) = DQ THEN <<BS, Head(s)>> ELSE <<Head(s)>>)
         \o quoteArrayReplace(Tail(s))

\* pgio.AppendInt32(buf, n): the 4 bytes of the 32-bit two's complement of n,
\* most significant first
AppendInt32(buf, n) ==
    AppendBytes(buf, << (n \div 16777216) % 256, (n \div 65536) % 256,
                        (n \div 256) % 256, n % 256 >>)

\* the orders in which a range over a map with key set S can visit the keys
Orders(S) ==
    {o \in [1..Cardinality(S) -> S] : \A i, j \in 1..Cardinality(S) : i # j => o[i] # o[j]}

\* a plausible slip: the separator written before every pair, the first included
textPairHstoreAlwaysSep(buf, firstPair, k, v) ==
    LET b0 == AppendBytes(buf, <<COMMA, SP>>)
        b4 == AppendBytes(AppendBytes(AppendBytes(AppendBytes(b0, <<DQ>>),
                  quoteArrayReplace(k)), <<DQ>>), <<EQ, GT>>)
    IN IF v.Valid
       THEN AppendBytes(AppendBytes(AppendBytes(b4, <<DQ>>), quoteArrayReplace(v.String)), <<DQ>>)
       ELSE AppendBytes(b4, <<BN, BU, BL, BL>>)

\* the body of the range loop of encodePlanHstoreCodecText.Encode for one pair
textPairHstore(buf, firstPair, k, v) ==
    LET b0 == IF firstPair THEN buf ELSE AppendBytes(buf, <<COMMA, SP>>)
        b1 == AppendBytes(b0, <<DQ>>)
        b2 == AppendBytes(b1, quoteArrayReplace(k))
        b3 == AppendBytes(b2, <<DQ>>)
        b4 == AppendBytes(b3, <<EQ, GT>>)
    IN IF v.Valid
       THEN AppendBytes(AppendBytes(AppendBytes(b4, <<DQ>>), quoteArrayReplace(v.String)), <<DQ>>)
       ELSE AppendBytes(b4, <<BN, BU, BL, BL>>)

RECURSIVE textLoopHstore(_, _, _, _)
textLoopHstore(h, order, i, buf) ==
    IF i > Len(order) THEN buf
    ELSE textLoopHstore(h, order, i + 1, textPairHstore(buf, i = 1, order[i], h.m[order[i]]))

\* a plausible slip: the pairs are written from the start of buf
encodePlanHstoreCodecText_EncodeFromStart(h, buf, order) ==
    IF h.nil THEN [buf |-> NilBytes, err |-> NoErr]
    ELSE [buf |-> textLoopHstore(h, order, 1, Bytes(<<>>)), err |-> NoErr]

\* encodePlanHstoreCodecText.Encode; order is the order the range visits the map in
encodePlanHstoreCodecText_Encode(h, buf, order) ==
    IF h.nil THEN [buf |-> NilBytes, err |-> NoErr]
    ELSE [buf |-> textLoopHstore(h, order, 1, buf), err |-> NoErr]

\* the body of the range loop of encodePlanHstoreCodecBinary.Encode for one pair
binaryPairHstore(buf, k, v) ==
    LET b1 == AppendBytes(AppendInt32(buf, Len(k)), k) IN
    IF v.Valid
    THEN AppendBytes(AppendInt32(b1, Len(v.String)), v.String)
    ELSE AppendInt32(b1, -1)

RECURSIVE binaryLoopHstore(_, _, _, _)
binaryLoopHstore(h, order, i, buf) ==
    IF i > Len(order) THEN buf
    ELSE binaryLoopHstore(h, order, i + 1, binaryPairHstore(buf, order[i], h.m[order[i]]))

\* encodePlanHstoreCodecBinary.Encode
encodePlanHstoreCodecBinary_Encode(h, buf, order) ==
    IF h.nil THEN [buf |-> NilBytes, err |-> NoErr]
    ELSE [buf |-> binaryLoopHstore(h, order, 1, AppendInt32(buf, Cardinality(DOMAIN h.m))),
          err |-> NoErr]

\* the body of the range loop of encodePlanHstoreCompatCodecText.Encode for one pair
textPairCompat(h, buf, firstPair, k, v) ==
    LET b0 == IF firstPair THEN buf ELSE AppendBytes(buf, <<COMMA, SP>>)
        b1 == AppendBytes(b0, <<DQ>>)
        b2 == AppendBytes(b1, quoteArrayReplace(k))
        b3 == AppendBytes(b2, <<DQ>>)
        b4 == AppendBytes(b3, <<EQ, GT>>)
    IN IF v = NilPtr
       THEN AppendBytes(b4, <<BN, BU, BL, BL>>)
       ELSE AppendBytes(AppendBytes(AppendBytes(b4, <<DQ>>), quoteArrayReplace(Deref(h, v))), <<DQ>>)

RECURSIVE textLoopCompat(_, _, _, _)
textLoopCompat(h, order, i, buf) ==
    IF i > Len(order) THEN buf
    ELSE textLoopCompat(h, order, i + 1, textPairCompat(h, buf, i = 1, order[i], h.m[order[i]]))

\* encodePlanHstoreCompatCodecText.Encode
encodePlanHstoreCompatCodecText_Encode(h, buf, order) ==
    IF h.nil THEN [buf |-> NilBytes, err |-> NoErr]
    ELSE [buf |-> textLoopCompat(h, order, 1, buf), err |-> NoErr]

\* a plausible slip: a present empty string written as the absent value
binaryPairCompatEmptyAsNull(h, buf, k, v) ==
    LET b1 == AppendBytes(AppendInt32(buf, Len(k)), k) IN
    IF v = NilPtr \/ Deref(h, v) = <<>>
    THEN AppendInt32(b1, -1)
    ELSE AppendBytes(AppendInt32(b1, Len(Deref(h, v))), Deref(h, v))

\* the body of the range loop of encodePlanHstoreCompatCodecBinary.Encode for one pair
binaryPairCompat(h, buf, k, v) ==
    LET b1 == AppendBytes(AppendInt32(buf, Len(k)), k) IN
    IF v = NilPtr
    THEN AppendInt32(b1, -1)
    ELSE AppendBytes(AppendInt32(b1, Len(Deref(h, v))), Deref(h, v))

RECURSIVE binaryLoopCompat(_, _, _, _)
binaryLoopCompat(h, order, i, buf) ==
    IF i > Len(order) THEN buf
    ELSE binaryLoopCompat(h, order, i + 1, binaryPairCompat(h, buf, order[i], h.m[order[i]]))

\* encodePlanHstoreCompatCodecBinary.Encode
encodePlanHstoreCompatCodecBinary_Encode(h, buf, order) ==
    IF h.nil THEN [buf |-> NilBytes, err |-> NoErr]
    ELSE [buf |-> binaryLoopCompat(h, order, 1, AppendInt32(buf, Cardinality(DOMAIN h.m))),
          err |-> NoErr]

----------------------------------------------------------------------------
(* Plan selection for encoding, and database/sql's Value *)

\* The dynamic types of the values handed to the codecs.  HstoreValue and
\* HstoreCompatValue have value receivers, so the map types and the pointers
\* to them have them; ScanHstore and ScanHstoreCompat have pointer receivers.
HstoreValuerTypes == {"Hstore", "*Hstore"}
HstoreCompatValuerTypes == {"HstoreCompat", "*HstoreCompat"}
HstoreScannerTypes == {"*Hstore"}
HstoreCompatScannerTypes == {"*HstoreCompat"}

\* no plan: the nil pgtype.EncodePlan / pgtype.ScanPlan
NilPlan == "nil"

\* HstoreCodec.FormatSupported and HstoreCompatCodec.FormatSupported
HstoreCodec_FormatSupported(fc) == fc = TextFormatCode \/ fc = BinaryFormatCode
HstoreCompatCodec_FormatSupported(fc) == fc = TextFormatCode \/ fc = BinaryFormatCode

\* HstoreCodec.PreferredFormat and HstoreCompatCodec.PreferredFormat
HstoreCodec_PreferredFormat == BinaryFormatCode
HstoreCompatCodec_PreferredFormat == BinaryFormatCode

\* a plausible slip: the test of the value made for either valuer interface
HstoreCodec_PlanEncodeAnyValuer(fc, t) ==
    IF t \notin HstoreValuerTypes \cup HstoreCompatValuerTypes THEN NilPlan
    ELSE IF fc = BinaryFormatCode THEN "encodePlanHstoreCodecBinary"
    ELSE IF fc = TextFormatCode THEN "encodePlanHstoreCodecText"
    ELSE NilPlan

\* HstoreCodec.PlanEncode(m, oid, format, value), t being the dynamic type of value
HstoreCodec_PlanEncode(fc, t) ==
    IF t \notin HstoreValuerTypes THEN NilPlan
    ELSE IF fc = BinaryFormatCode THEN "encodePlanHstoreCodecBinary"
    ELSE IF fc = TextFormatCode THEN "encodePlanHstoreCodecText"
    ELSE NilPlan

\* HstoreCompatCodec.PlanEncode
HstoreCompatCodec_PlanEncode(fc, t) ==
    IF t \notin HstoreCompatValuerTypes THEN NilPlan
    ELSE IF fc = BinaryFormatCode THEN "encodePlanHstoreCompatCodecBinary"
    ELSE IF fc = TextFormatCode THEN "encodePlanHstoreCompatCodecText"
    ELSE NilPlan

\* HstoreCodec.PlanScan(m, oid, format, target), t being the dynamic type of target
HstoreCodec_PlanScan(fc, t) ==
    IF fc = BinaryFormatCode
    THEN IF t \in HstoreScannerTypes THEN "scanPlanBinaryHstoreToHstoreScanner" ELSE NilPlan
    ELSE IF fc = TextFormatCode
    THEN IF t \in HstoreScannerTypes THEN "scanPlanTextAnyToHstoreScanner" ELSE NilPlan
    ELSE NilPlan

\* HstoreCompatCodec.PlanScan
HstoreCompatCodec_PlanScan(fc, t) ==
    IF fc = BinaryFormatCode
    THEN IF t \in HstoreCompatScannerTypes
         THEN "scanPlanBinaryHstoreToHstoreCompatScanner" ELSE NilPlan
    ELSE IF fc = TextFormatCode
    THEN IF t \in HstoreCompatScannerTypes
         THEN "scanPlanTextAnyToHstoreCompatScanner" ELSE NilPlan
    ELSE NilPlan

\* plan.Encode(value, buf), t being the dynamic type of value and h its mapping.
\* A method call on the nil plan is a nil dereference; the type assertion
\* value.(HstoreValuer) of a plan panics for a value that is not one.
EncodePlan_Encode(plan, t, h, buf, order) ==
    IF plan = NilPlan THEN [buf |-> NilBytes, err |-> Panic]
    ELSE IF plan \in {"encodePlanHstoreCodecBinary", "encodePlanHstoreCodecText"}
    THEN IF t \notin HstoreValuerTypes THEN [buf |-> NilBytes, err |-> Panic]
         ELSE IF plan = "encodePlanHstoreCodecBinary"
         THEN encodePlanHstoreCodecBinary_Encode(h, buf, order)
         ELSE encodePlanHstoreCodecText_Encode(h, buf, order)
    ELSE IF t \notin HstoreCompatValuerTypes THEN [buf |-> NilBytes, err |-> Panic]
         ELSE IF plan = "encodePlanHstoreCompatCodecBinary"
         THEN encodePlanHstoreCompatCodecBinary_Encode(h, buf, order)
         ELSE encodePlanHstoreCompatCodecText_Encode(h, buf, order)

\* the end of Value, r being what Encode returned: nil, err or string(buf), err
driverValue(r) ==
    IF r.err # NoErr THEN [value |-> NilBytes, err |-> r.err]
    ELSE [value |-> Bytes(r.buf.bytes), err |-> r.err]

\* Hstore.Value of database/sql/driver
Hstore_Value(h, order) ==
    IF h.nil THEN [value |-> NilBytes, err |-> NoErr]
    ELSE driverValue(EncodePlan_Encode(HstoreCodec_PlanEncode(TextFormatCode, "Hstore"),
                                       "Hstore", h, NilBytes, order))

\* HstoreCompat.Value: the plan is asked of HstoreCodec, with an HstoreCompat
HstoreCompat_Value(h, order) ==
    IF h.nil THEN [value |-> NilBytes, err |-> NoErr]
    ELSE driverValue(EncodePlan_Encode(HstoreCodec_PlanEncode(TextFormatCode, "HstoreCompat"),
                                       "HstoreCompat", h, NilBytes, order))

----------------------------------------------------------------------------
(* The scan plans *)

\* the outcome of a Scan: the target afterwards, the number of calls of its
\* ScanHstore / ScanHstoreCompat method, and the error returned
ScanResult(dst, n, e) == [dst |-> dst, calls |-> n, err |-> e]

\* (*Hstore).ScanHstore and (*HstoreCompat).ScanHstoreCompat: *h = v; return nil
ScanHstore(dst, v) == ScanResult(v, 1, NoErr)

\* a plausible slip: the target is handed what was read whether or not the
\* read failed
scannedAlways(r, dst) == ScanResult(r.h, 1, r.err)

\* the end of a scan, r being the mapping read or the error met:
\* return err, or return scanner.ScanHstore(hstore)
scanned(r, dst) ==
    IF r.err # NoErr THEN ScanResult(dst, 0, r.err) ELSE ScanHstore(dst, r.h)

\* int(int32(binary.BigEndian.Uint32(src[rp:])))
Int32At(src, rp) ==
    (IF src[rp + 1] >= 128 THEN src[rp + 1] - 256 ELSE src[rp + 1]) * 16777216
    + src[rp + 2] * 65536 + src[rp + 3] * 256 + src[rp + 4]

\* a plausible slip: a negative value length read as an empty present value
binaryPairNoNull(src, keyValueString, rp) ==
    LET fail(e) == [rp |-> rp, key |-> <<>>, value |-> NullText, err |-> e]
        keyLen == Int32At(src, rp)
        rp2 == rp + uint32Len + keyLen
        valueLen == Int32At(src, rp2)
        rp3 == rp2 + 4
    IN
    IF rp > Len(src) THEN fail(Panic)
    ELSE IF Len(src) - rp < uint32Len THEN fail(ErrIncomplete)
    ELSE IF Len(src) - (rp + uint32Len) < keyLen THEN fail(ErrIncomplete)
    ELSE IF ~SliceOK(keyValueString, rp, rp + keyLen) THEN fail(Panic)
    ELSE IF Len(src) - rp2 < uint32Len THEN fail(ErrIncomplete)
    ELSE IF valueLen >= 0
    THEN IF ~SliceOK(keyValueString, rp3 - uint32Len, rp3 - uint32Len + valueLen)
         THEN fail(Panic)
         ELSE [rp |-> rp3 + valueLen, key |-> Slice(keyValueString, rp, rp + keyLen),
               value |-> NewText(Slice(keyValueString, rp3 - uint32Len,
                                       rp3 - uint32Len + valueLen)),
               err |-> NoErr]
    ELSE [rp |-> rp3, key |-> Slice(keyValueString, rp, rp + keyLen),
          value |-> NewText(<<>>), err |-> NoErr]

\* a plausible slip: the absent value recognised by the length -1 alone
binaryPairOnlyMinusOne(src, keyValueString, rp) ==
    LET fail(e) == [rp |-> rp, key |-> <<>>, value |-> NullText, err |-> e]
        keyLen == Int32At(src, rp)
        rp1 == rp + uint32Len
        rp2 == rp1 + keyLen
        valueLen == Int32At(src, rp2)
        rp3 == rp2 + 4
    IN
    IF rp > Len(src) THEN fail(Panic)
    ELSE IF Len(src) - rp < uint32Len THEN fail(ErrIncomplete)
    ELSE IF Len(src) - rp1 < keyLen THEN fail(ErrIncomplete)
    ELSE IF ~SliceOK(keyValueString, rp1 - uint32Len, rp1 - uint32Len + keyLen)
    THEN fail(Panic)
    ELSE IF Len(src) - rp2 < uint32Len THEN fail(ErrIncomplete)
    ELSE IF valueLen # -1
    THEN IF ~SliceOK(keyValueString, rp3 - uint32Len, rp3 - uint32Len + valueLen)
         THEN fail(Panic)
         ELSE [rp |-> rp3 + valueLen,
               key |-> Slice(keyValueString, rp1 - uint32Len, rp1 - uint32Len + keyLen),
               value |-> NewText(Slice(keyValueString, rp3 - uint32Len,
                                       rp3 - uint32Len + valueLen)),
               err |-> NoErr]
    ELSE [rp |-> rp3,
          key |-> Slice(keyValueString, rp1 - uint32Len, rp1 - uint32Len + keyLen),
          value |-> NullText, err |-> NoErr]

\* One iteration of the pair loop of the binary scan plans, rp being the read
\* position at its start.  The key length, the key and the value length are
\* read after a check of the bytes that remain in src; the value is sliced
\* from keyValueString with no check.  src[rp:] and the slices of
\* keyValueString (which is src[4:], hence the offsets less uint32Len) panic
\* when out of range.
binaryPair(src, keyValueString, rp) ==
    LET fail(e) == [rp |-> rp, key |-> <<>>, value |-> NullText, err |-> e]
        keyLen == Int32At(src, rp)
        \* rp after the key length, after the key, after the value length
        rp1 == rp + uint32Len
        rp2 == rp1 + keyLen
        valueLen == Int32At(src, rp2)
        rp3 == rp2 + 4
    IN
    IF rp > Len(src) THEN fail(Panic)
    ELSE IF Len(src) - rp < uint32Len THEN fail(ErrIncomplete)
    ELSE IF Len(src) - rp1 < keyLen THEN fail(ErrIncomplete)
    ELSE IF ~SliceOK(keyValueString, rp1 - uint32Len, rp1 - uint32Len + keyLen)
    THEN fail(Panic)
    ELSE IF Len(src) - rp2 < uint32Len THEN fail(ErrIncomplete)
    ELSE IF valueLen >= 0
    THEN IF ~SliceOK(keyValueString, rp3 - uint32Len, rp3 - uint32Len + valueLen)
         THEN fail(Panic)
         ELSE [rp |-> rp3 + valueLen,
               key |-> Slice(keyValueString, rp1 - uint32Len, rp1 - uint32Len + keyLen),
               value |-> NewText(Slice(keyValueString, rp3 - uint32Len,
                                       rp3 - uint32Len + valueLen)),
               err |-> NoErr]
    ELSE [rp |-> rp3,
          key |-> Slice(keyValueString, rp1 - uint32Len, rp1 - uint32Len + keyLen),
          value |-> NullText, err |-> NoErr]

\* the for i := 0; i < pairCount; i++ loop of scanPlanBinaryHstoreToHstoreScanner.Scan;
\* binaryScanStoreHstore is the end of an iteration, r being the pair it read
RECURSIVE binaryScanLoopHstore(_, _, _, _, _, _)
binaryScanStoreHstore(r, src, keyValueString, i, pairCount, hstore) ==
    IF r.err # NoErr THEN [h |-> NilHstore, err |-> r.err]
    ELSE binaryScanLoopHstore(src, keyValueString, r.rp, i + 1, pairCount,
                              MapPut(hstore, r.key, r.value))

binaryScanLoopHstore(src, keyValueString, rp, i, pairCount, hstore) ==
    IF ~(i < pairCount) THEN [h |-> Hstore(hstore), err |-> NoErr]
    ELSE binaryScanStoreHstore(binaryPair(src, keyValueString, rp),
                               src, keyValueString, i, pairCount, hstore)

\* scanPlanBinaryHstoreToHstoreScanner.Scan
scanPlanBinaryHstoreToHstoreScanner_Scan(src, dst) ==
    IF src.nil THEN ScanHstore(dst, NilHstore)
    ELSE IF Len(src.bytes) < uint32Len THEN ScanResult(dst, 0, ErrIncomplete)
    ELSE scanned(binaryScanLoopHstore(src.bytes, Slice(src.bytes, uint32Len, Len(src.bytes)),
                                      uint32Len, 0, Int32At(src.bytes, 0), EmptyMap),
                 dst)

\* the loop of scanPlanBinaryHstoreToHstoreCompatScanner.Scan: the value of pair
\* i is stored in valueStrings[i] and the map entry is its address
RECURSIVE binaryScanLoopCompat(_, _, _, _, _, _, _)
binaryScanStoreCompat(r, src, keyValueString, i, pairCount, hstore, valueStrings) ==
    IF r.err # NoErr THEN [h |-> NilHstoreCompat, err |-> r.err]
    ELSE IF r.value.Valid
    THEN binaryScanLoopCompat(src, keyValueString, r.rp, i + 1, pairCount,
                              MapPut(hstore, r.key, Ptr(1, i + 1)),
                              [valueStrings EXCEPT ![i + 1] = r.value.String])
    ELSE binaryScanLoopCompat(src, keyValueString, r.rp, i + 1, pairCount,
                              MapPut(hstore, r.key, NilPtr), valueStrings)

binaryScanLoopCompat(src, keyValueString, rp, i, pairCount, hstore, valueStrings) ==
    IF ~(i < pairCount) THEN [h |-> HstoreCompat(hstore, <<valueStrings>>), err |-> NoErr]
    ELSE binaryScanStoreCompat(binaryPair(src, keyValueString, rp),
                               src, keyValueString, i, pairCount, hstore, valueStrings)

\* scanPlanBinaryHstoreToHstoreCompatScanner.Scan
scanPlanBinaryHstoreToHstoreCompatScanner_Scan(src, dst) ==
    IF src.nil THEN ScanHstore(dst, NilHstoreCompat)
    ELSE IF Len(src.bytes) < uint32Len THEN ScanResult(dst, 0, ErrIncomplete)
    \* make([]string, pairCount) panics for a negative length
    ELSE IF Int32At(src.bytes, 0) < 0 THEN ScanResult(dst, 0, Panic)
    ELSE scanned(binaryScanLoopCompat(src.bytes, Slice(src.bytes, uint32Len, Len(src.bytes)),
                                      uint32Len, 0, Int32At(src.bytes, 0), EmptyMap,
                                      [j \in 1..Int32At(src.bytes, 0) |-> <<>>]),
                 dst)

\* scanPlanTextAnyToHstoreScanner.scanString
scanPlanTextAnyToHstoreScanner_scanString(src, dst) == scanned(parseHstore(src), dst)

\* a plausible slip: no test of src == nil, a nil src read as the empty string
scanPlanTextAnyToHstoreScanner_ScanNoNil(src, dst) ==
    scanPlanTextAnyToHstoreScanner_scanString(src.bytes, dst)

\* scanPlanTextAnyToHstoreScanner.Scan
scanPlanTextAnyToHstoreScanner_Scan(src, dst) ==
    IF src.nil THEN ScanHstore(dst, NilHstore)
    ELSE scanPlanTextAnyToHstoreScanner_scanString(src.bytes, dst)

\* scanPlanTextAnyToHstoreCompatScanner.scanString
scanPlanTextAnyToHstoreCompatScanner_scanString(src, dst) ==
    scanned(parseHstoreCompat(src), dst)

\* scanPlanTextAnyToHstoreCompatScanner.Scan
scanPlanTextAnyToHstoreCompatScanner_Scan(src, dst) ==
    IF src.nil THEN ScanHstore(dst, NilHstoreCompat)
    ELSE scanPlanTextAnyToHstoreCompatScanner_scanString(src.bytes, dst)

\* (*Hstore).Scan of database/sql, src being nil or a string: *h = nil, or
\* scanString(src, h)
Hstore_Scan(src, dst) ==
    IF src.nil THEN ScanResult(NilHstore, 0, NoErr)
    ELSE scanPlanTextAnyToHstoreScanner_scanString(src.bytes, dst)

\* (*HstoreCompat).Scan of database/sql, src being nil or a string
HstoreCompat_Scan(src, dst) ==
    IF src.nil THEN ScanResult(NilHstoreCompat, 0, NoErr)
    ELSE scanPlanTextAnyToHstoreCompatScanner_scanString(src.bytes, dst)

\* A src of database/sql's Scan is of type "nil" (the nil interface),
\* "string", "[]byte" or "int64"; bytes is the text of a string or []byte.
\* a plausible slip: a []byte taken for text, as a string is
Hstore_ScanAnyBytes(src, dst) ==
    IF src.type = "nil" THEN Hstore_Scan(NilBytes, dst)
    ELSE IF src.type \in {"string", "[]byte"} THEN Hstore_Scan(Bytes(src.bytes), dst)
    ELSE ScanResult(dst, 0, ErrCannotScan)

\* (*Hstore).Scan of database/sql for a src of any type: the nil interface, the
\* case string of the type switch, or fmt.Errorf("cannot scan %T", src)
Hstore_ScanAny(src, dst) ==
    IF src.type = "nil" THEN Hstore_Scan(NilBytes, dst)
    ELSE IF src.type = "string" THEN Hstore_Scan(Bytes(src.bytes), dst)
    ELSE ScanResult(dst, 0, ErrCannotScan)

\* (*HstoreCompat).Scan of database/sql for a src of any type
HstoreCompat_ScanAny(src, dst) ==
    IF src.type = "nil" THEN HstoreCompat_Scan(NilBytes, dst)
    ELSE IF src.type = "string" THEN HstoreCompat_Scan(Bytes(src.bytes), dst)
    ELSE ScanResult(dst, 0, ErrCannotScan)

----------------------------------------------------------------------------
(* The round-trip harness of FuzzLocalRoundTrip and its inputs *)

\* the keys of the mappings handed to the encoders: empty, a backslash and a
\* double quote, the separators of the text format with a space
TestKeys == { <<>>, <<BS, DQ>>, <<97, COMMA, SP, EQ, GT>> }

\* their values: absent, empty, a double quote and a backslash, the word NULL
TestTexts == { NullText, NewText(<<>>), NewText(<<DQ, BS>>), NewText(<<BN, BU, BL, BL>>) }

\* every Hstore with at most MaxPairs pairs over these, and the nil Hstore
InputHstores ==
    {NilHstore} \cup
    UNION { {Hstore(m) : m \in [K -> TestTexts]} :
            K \in {K \in SUBSET TestKeys : Cardinality(K) <= MaxPairs} }

\* the caller-supplied buffers: nil (the tests) and empty but not nil (buf[:0] of
\* BenchmarkHstoreEncode)
InputBufs == {NilBytes, Bytes(<<>>)}

Variants == {"hstore", "compat"}

\* fasterToOrig builds a map[string]*string from an Hstore: a fresh string per
\* present value, nil for an absent one.  Its range visits the keys in order;
\* the i-th visited key's string is allocation i.
RECURSIVE fasterToOrigLoop(_, _, _, _, _)
fasterToOrigLoop(h, order, i, out, arrays) ==
    IF i > Len(order) THEN HstoreCompat(out, arrays)
    ELSE IF h.m[order[i]].Valid
    THEN fasterToOrigLoop(h, order, i + 1, MapPut(out, order[i], Ptr(Len(arrays) + 1, 1)),
                          Append(arrays, <<h.m[order[i]].String>>))
    ELSE fasterToOrigLoop(h, order, i + 1, MapPut(out, order[i], NilPtr), arrays)

fasterToCompat(h, order) == fasterToOrigLoop(h, order, 1, EmptyMap, <<>>)

\* the HstoreCompat handed to an encoder: nil, or built as fasterToCompat does;
\* for the comparison after the scan the order of that range does not matter,
\* so it is taken to be the order of the encoder's
compatInput(h, order) == IF h.nil THEN NilHstoreCompat ELSE fasterToCompat(h, order)

\* newScanType of allHstoreConfigs: &Hstore{} and &HstoreCompat{}
newScanType(v) == IF v = "hstore" THEN Hstore(EmptyMap) ELSE HstoreCompat(EmptyMap, <<>>)

\* var hstore Hstore: the nil mapping of the variant
nilMapping(v) == IF v = "hstore" THEN NilHstore ELSE NilHstoreCompat

\* the targets a scan is made into
ScanTargets(v) == {newScanType(v), nilMapping(v)}

\* reflect.DeepEqual of two map[string]*string: both nil or both not, the same
\* keys, and per key both pointers nil or both pointing at equal strings
DeepEqualCompat(a, b) ==
    /\ a.nil = b.nil
    /\ DOMAIN a.m = DOMAIN b.m
    /\ \A k \in DOMAIN a.m :
          /\ (a.m[k] = NilPtr) = (b.m[k] = NilPtr)
          /\ a.m[k] # NilPtr => Deref(a, a.m[k]) = Deref(b, b.m[k])

\* isScannedHstoreEqual: reflect.DeepEqual of the input and the scanned value
isScannedHstoreEqual(v, input, output) ==
    IF v = "hstore" THEN input = output ELSE DeepEqualCompat(input, output)

\* cfg.encodePlan.Encode of the four configurations
EncodeWith(v, f, h, buf, order) ==
    IF v = "hstore"
    THEN IF f = "text" THEN encodePlanHstoreCodecText_Encode(h, buf, order)
         ELSE encodePlanHstoreCodecBinary_Encode(h, buf, order)
    ELSE IF f = "text" THEN encodePlanHstoreCompatCodecText_Encode(h, buf, order)
         ELSE encodePlanHstoreCompatCodecBinary_Encode(h, buf, order)

\* cfg.scanPlan.Scan of the four configurations
ScanWith(v, f, src, dst) ==
    IF v = "hstore"
    THEN IF f = "text" THEN scanPlanTextAnyToHstoreScanner_Scan(src, dst)
         ELSE scanPlanBinaryHstoreToHstoreScanner_Scan(src, dst)
    ELSE IF f = "text" THEN scanPlanTextAnyToHstoreCompatScanner_Scan(src, dst)
         ELSE scanPlanBinaryHstoreToHstoreCompatScanner_Scan(src, dst)

\* the Scan method of database/sql of the two types
SqlScanWith(v, src, dst) ==
    IF v = "hstore" THEN Hstore_Scan(src, dst) ELSE HstoreCompat_Scan(src, dst)

\* nothing returned yet
NoRet == [kind |-> "none"]

\* the type map of a new connection, as far as this package's types go: no
\* type registered under any OID or name
EmptyTypeMap == [oidToType |-> EmptyMap, nameToType |-> EmptyMap]

\* no parse is in progress
NoParser == [phase |-> "none"]

Init ==
    /\ op = "init"
    /\ variant = "hstore"
    /\ format = "text"
    /\ value = NilHstore
    /\ buf0 = NilBytes
    /\ wire = NilBytes
    /\ target = newScanType("hstore")
    /\ before = newScanType("hstore")
    /\ calls = 0
    /\ err = NoErr
    /\ ret = NoRet
    /\ typeMap = EmptyTypeMap
    /\ parser = NoParser

\* serialized, err := cfg.encodePlan.Encode(input, buf); output := cfg.newScanType()
\* r is what Encode returned
Encoded(v, f, input, buf, r) ==
    /\ op = "init"
    /\ op' = "encode"
    /\ variant' = v
    /\ format' = f
    /\ value' = input
    /\ buf0' = buf
    /\ wire' = r.buf
    /\ err' = r.err
    /\ target' = newScanType(v)
    /\ before' = newScanType(v)
    /\ calls' = 0
    /\ UNCHANGED <<ret, typeMap, parser>>

EncodeHstore(f) ==
    \E h \in InputHstores, buf \in InputBufs :
        \E order \in Orders(DOMAIN h.m) :
            Encoded("hstore", f, h, buf, EncodeWith("hstore", f, h, buf, order))

EncodeCompat(f) ==
    \E h \in InputHstores, buf \in InputBufs :
        \E order \in Orders(DOMAIN h.m) :
            Encoded("compat", f, compatInput(h, order), buf,
                    EncodeWith("compat", f, compatInput(h, order), buf, order))

EncodeHstoreText == EncodeHstore("text")
EncodeHstoreBinary == EncodeHstore("binary")
EncodeCompatText == EncodeCompat("text")
EncodeCompatBinary == EncodeCompat("binary")

\* the state after a scan of src into the target dst, r being what the scan returned
Scanned(name, v, f, src, dst, r) ==
    /\ op' = name
    /\ variant' = v
    /\ format' = f
    /\ wire' = src
    /\ before' = dst
    /\ target' = r.dst
    /\ calls' = r.calls
    /\ err' = r.err

\* err = cfg.scanPlan.Scan(serialized, output)
ScanEncoded ==
    /\ op = "encode"
    /\ err = NoErr
    /\ Scanned("scan_encoded", variant, format, wire, target,
               ScanWith(variant, format, wire, target))
    /\ UNCHANGED <<value, buf0, ret, typeMap, parser>>

\* the scan of a strict prefix of a binary encoding (a message cut short)
ScanTruncated ==
    /\ op = "encode"
    /\ format = "binary"
    /\ ~wire.nil
    /\ buf0.nil
    /\ \E n \in 0..(Len(wire.bytes) - 1) :
          Scanned("scan_truncated", variant, format, Bytes(Slice(wire.bytes, 0, n)), target,
                  ScanWith(variant, format, Bytes(Slice(wire.bytes, 0, n)), target))
    /\ UNCHANGED <<value, buf0, ret, typeMap, parser>>

\* the harness moves on to its next case: new input, new target
NextCase ==
    /\ op \notin {"init", "encode", "parsing"}
    /\ op' = "init"
    /\ variant' = "hstore"
    /\ format' = "text"
    /\ value' = NilHstore
    /\ buf0' = NilBytes
    /\ wire' = NilBytes
    /\ target' = newScanType("hstore")
    /\ before' = newScanType("hstore")
    /\ calls' = 0
    /\ err' = NoErr
    /\ ret' = NoRet
    /\ typeMap' = EmptyTypeMap
    /\ parser' = NoParser

NextRoundTrip ==
    \/ EncodeHstoreText
    \/ EncodeHstoreBinary
    \/ EncodeCompatText
    \/ EncodeCompatBinary
    \/ ScanEncoded
    \/ ScanTruncated
    \/ NextCase

SpecRoundTrip == Init /\ [][NextRoundTrip]_vars

----------------------------------------------------------------------------
(* The text grammar, byte by byte, and the texts handed to the parsers *)

\* hstore := (pair (", " pair)*)?   pair := quoted "=>" (quoted | "NULL")
\* quoted := '"' (escaped | plain)* '"'
\* The state of a reader of the grammar after one more byte b.
GrammarStep(q, b) ==
    CASE q \in {"start", "pair"} -> IF b = DQ THEN "key" ELSE "reject"
      [] q = "key" -> IF b = DQ THEN "afterkey" ELSE IF b = BS THEN "keyescape" ELSE "key"
      [] q = "keyescape" -> IF b = BS \/ b = DQ THEN "key" ELSE "reject"
      [] q = "afterkey" -> IF b = EQ THEN "equals" ELSE "reject"
      [] q = "equals" -> IF b = GT THEN "value" ELSE "reject"
      [] q = "value" -> IF b = DQ THEN "quoted" ELSE IF b = BN THEN "N" ELSE "reject"
      [] q = "quoted" -> IF b = DQ THEN "aftervalue" ELSE IF b = BS THEN "escape" ELSE "quoted"
      [] q = "escape" -> IF b = BS \/ b = DQ THEN "quoted" ELSE "reject"
      [] q = "N" -> IF b = BU THEN "NU" ELSE "reject"
      [] q = "NU" -> IF b = BL THEN "NUL" ELSE "reject"
      [] q = "NUL" -> IF b = BL THEN "aftervalue" ELSE "reject"
      [] q = "aftervalue" -> IF b = COMMA THEN "comma" ELSE "reject"
      [] q = "comma" -> IF b = SP THEN "pair" ELSE "reject"
      [] OTHER -> "reject"

\* the state of the reader after the first i bytes of s
RECURSIVE GrammarState(_, _)
GrammarState(s, i) ==
    IF i = 0 THEN "start" ELSE GrammarStep(GrammarState(s, i - 1), s[i])

\* s is generated by the grammar
InGrammar(s) == GrammarState(s, Len(s)) \in {"start", "aftervalue"}

\* the text of a string in the grammar: quoted, with a backslash before each
\* backslash and double quote
RECURSIVE GrammarEscaped(_)
GrammarEscaped(raw) ==
    IF raw = <<>> THEN <<>>
    ELSE IF Head(raw) \in {BS, DQ} THEN <<BS, Head(raw)>> \o GrammarEscaped(Tail(raw))
    ELSE <<Head(raw)>> \o GrammarEscaped(Tail(raw))

GrammarQuoted(raw) == <<DQ>> \o GrammarEscaped(raw) \o <<DQ>>

GrammarPair(pr) ==
    GrammarQuoted(pr.key) \o <<EQ, GT>>
    \o (IF pr.value.Valid THEN GrammarQuoted(pr.value.String) ELSE <<BN, BU, BL, BL>>)

\* the text of a list of pairs
RECURSIVE GrammarText(_)
GrammarText(ps) ==
    IF ps = <<>> THEN <<>>
    ELSE IF Len(ps) = 1 THEN GrammarPair(ps[1])
    ELSE GrammarPair(ps[1]) \o <<COMMA, SP>> \o GrammarText(Tail(ps))

\* the keys and values of the well-formed texts: a plain key and a backslash;
\* absent, a double quote, and the word NULL as a string
RawKeys == { <<97>>, <<BS>> }
RawValues == { NullText, NewText(<<DQ>>), NewText(<<BN, BU, BL, BL>>) }
RawPairs == [key : RawKeys, value : RawValues]

\* the lists of at most MaxTextPairs pairs (a key may occur more than once)
PairLists == UNION { [1..n -> RawPairs] : n \in 0..MaxTextPairs }

WellFormedTexts == { GrammarText(ps) : ps \in PairLists }

\* the bytes an edit puts into a text: the bytes of the grammar, and 'l' for
\* any other byte
EditBytes == {DQ, BS, COMMA, SP, EQ, GT, 108}

\* every text one edit away from s: cut short, one byte removed, one byte
\* replaced, one byte inserted
Edits(s) ==
    { SubSeq(s, 1, n) : n \in 0..(Len(s) - 1) }
    \cup { SubSeq(s, 1, i - 1) \o SubSeq(s, i + 1, Len(s)) : i \in 1..Len(s) }
    \cup { [s EXCEPT ![i] = b] : i \in 1..Len(s), b \in EditBytes }
    \cup { SubSeq(s, 1, i) \o <<b>> \o SubSeq(s, i + 1, Len(s)) : i \in 0..Len(s), b \in EditBytes }

\* texts further from the grammar: a bare key, a NULL key, null in lower case,
\* spaces around "=>", a leading separator, a byte after a key, and a bad
\* escape in a string that is never closed
DeviantTexts ==
    { <<97, EQ, GT, DQ, 98, DQ>>,
      <<BN, BU, BL, BL, EQ, GT, DQ, 98, DQ>>,
      <<DQ, 97, DQ, EQ, GT, 110, 117, 108, 108>>,
      <<DQ, 97, DQ, SP, EQ, GT, SP, DQ, 98, DQ>>,
      <<COMMA, SP, DQ, 97, DQ, EQ, GT, DQ, 98, DQ>>,
      <<DQ, 97, DQ, 120>>,
      <<DQ, 97, DQ, EQ, GT, DQ, 98, DQ, COMMA, SP, DQ, 97, DQ, COMMA>>,
      <<DQ, BS, 97>>,
      <<DQ, 97, DQ, EQ, GT, DQ, 98, BS, 97>> }

TextInputs == WellFormedTexts \cup UNION { Edits(s) : s \in WellFormedTexts } \cup DeviantTexts

\* err := scanPlan.Scan([]byte(text), newScanType()) of the text plan
ParseText ==
    /\ op = "init"
    /\ \E v \in Variants, s \in TextInputs :
          Scanned("parse_text", v, "text", Bytes(s), newScanType(v),
                  ScanWith(v, "text", Bytes(s), newScanType(v)))
    /\ UNCHANGED <<value, buf0, ret, typeMap, parser>>

\* a scan plan's Scan of the nil and of the empty input
ScanNilOrEmpty ==
    /\ op = "init"
    /\ \E v \in Variants, f \in {"text", "binary"}, src \in InputBufs :
          \E dst \in ScanTargets(v) :
              Scanned("scan_nil_or_empty", v, f, src, dst, ScanWith(v, f, src, dst))
    /\ UNCHANGED <<value, buf0, ret, typeMap, parser>>

\* database/sql's Scan of nil and of the text of a column
SqlScan ==
    /\ op = "init"
    /\ \E v \in Variants, src \in {NilBytes} \cup {Bytes(s) : s \in WellFormedTexts} :
          \E dst \in ScanTargets(v) :
              Scanned("sql_scan", v, "text", src, dst, SqlScanWith(v, src, dst))
    /\ UNCHANGED <<value, buf0, ret, typeMap, parser>>

NextText ==
    \/ ParseText
    \/ ScanNilOrEmpty
    \/ SqlScan
    \/ NextCase

SpecText == Init /\ [][NextText]_vars

----------------------------------------------------------------------------
(* The binary messages handed to the binary scan plans *)

\* the 4 bytes of the 32-bit two's complement of n, most significant first
Field32(n) == << (n \div 16777216) % 256, (n \div 65536) % 256, (n \div 256) % 256, n % 256 >>

\* One pair of a message: the length it declares for its key, the key bytes
\* that follow, the length it declares for its value, the value bytes that
\* follow.  A declared length may differ from the bytes that follow.
Frame(kl, kb, vl, vb) == [keyLen |-> kl, key |-> kb, valueLen |-> vl, value |-> vb]
FrameBytes(fr) == Field32(fr.keyLen) \o fr.key \o Field32(fr.valueLen) \o fr.value

\* the first pair of a message: every mix of declared lengths (negative, right,
\* too long) and bytes
FirstFrames ==
    { Frame(kl, kb, vl, vb) : kl \in {-1, 0, 1, 2}, kb \in {<<>>, <<97>>},
                              vl \in {-2, -1, 0, 1, 3}, vb \in {<<>>, <<DQ>>} }

\* a second pair: a key b with an absent, an empty or a one-byte value, a
\* pair whose value is longer than the message, and the keys of the first pairs
\* once more
SecondFrames ==
    { Frame(1, <<98>>, -1, <<>>), Frame(1, <<98>>, 0, <<>>), Frame(1, <<98>>, 1, <<BS>>),
      Frame(1, <<98>>, 2, <<BS>>), Frame(0, <<>>, -2, <<>>), Frame(1, <<97>>, 1, <<BS>>) }

FrameLists ==
    { <<>> } \cup { <<f>> : f \in FirstFrames }
    \cup { <<f, g>> : f \in FirstFrames, g \in SecondFrames }

RECURSIVE FramesBytes(_)
FramesBytes(fs) == IF fs = <<>> THEN <<>> ELSE FrameBytes(Head(fs)) \o FramesBytes(Tail(fs))

\* the pair counts a message declares
PairCounts == {-1, 0, 1, 2, 3}

\* a message: a pair count and the pairs that follow it
Message(n, fs) == Field32(n) \o FramesBytes(fs)

\* the messages, and the buffers too short for a pair count
BinaryInputs ==
    { Message(n, fs) : n \in PairCounts, fs \in FrameLists }
    \cup { <<>>, <<0>>, <<0, 0, 0>> }

\* err := scanPlan.Scan(src, newScanType()) of the binary plan
ScanBinary ==
    /\ op = "init"
    /\ \E v \in Variants, s \in BinaryInputs :
          Scanned("scan_binary", v, "binary", Bytes(s), newScanType(v),
                  ScanWith(v, "binary", Bytes(s), newScanType(v)))
    /\ UNCHANGED <<value, buf0, ret, typeMap, parser>>

NextBinary ==
    \/ ScanBinary
    \/ NextCase

SpecBinary == Init /\ [][NextBinary]_vars

----------------------------------------------------------------------------
(* The representation adapters *)

\* h := PGXToFasterHstore(m) for a pointer map m
Convert ==
    /\ op = "init"
    /\ \E h \in InputHstores :
          \E o1, o2 \in Orders(DOMAIN h.m) :
              /\ value' = compatInput(h, o1)
              /\ ret' = PGXToFasterHstore(compatInput(h, o1), o2)
    /\ op' = "convert"
    /\ variant' = "compat"
    /\ UNCHANGED <<format, buf0, wire, target, before, calls, err, typeMap, parser>>

\* fasterToOrig(h) for the Hstore h that PGXToFasterHstore returned
ConvertBack ==
    /\ op = "convert"
    /\ \E o \in Orders(DOMAIN ret.m) : ret' = fasterToCompat(ret, o)
    /\ op' = "convert_back"
    /\ UNCHANGED <<variant, format, value, buf0, wire, target, before, calls, err, typeMap, parser>>

NextAdapters ==
    \/ Convert
    \/ ConvertBack
    \/ NextCase

SpecAdapters == Init /\ [][NextAdapters]_vars

----------------------------------------------------------------------------
(* database/sql: Value, and Scan of what Value returned *)

\* sqlValue, err := valuer.Value(); r is what Value returned
SqlValued(v, input, r) ==
    /\ op' = "sql_value"
    /\ variant' = v
    /\ format' = "text"
    /\ value' = input
    /\ buf0' = NilBytes
    /\ wire' = r.value
    /\ err' = r.err
    /\ target' = newScanType(v)
    /\ before' = newScanType(v)
    /\ calls' = 0
    /\ UNCHANGED <<ret, typeMap, parser>>

SqlValueHstore ==
    /\ op = "init"
    /\ \E h \in InputHstores :
          \E order \in Orders(DOMAIN h.m) : SqlValued("hstore", h, Hstore_Value(h, order))

SqlValueCompat ==
    /\ op = "init"
    /\ \E h \in InputHstores :
          \E order \in Orders(DOMAIN h.m) :
              SqlValued("compat", compatInput(h, order),
                        HstoreCompat_Value(compatInput(h, order), order))

\* sqlOutput := cfg.newScanType(); err = sqlOutput.(sql.Scanner).Scan(sqlValue)
SqlScanValue ==
    /\ op = "sql_value"
    /\ err = NoErr
    /\ Scanned("sql_scan_value", variant, format, wire, target,
               SqlScanWith(variant, wire, target))
    /\ UNCHANGED <<value, buf0, ret, typeMap, parser>>

\* the sources handed to database/sql's Scan: the nil interface; strings, well
\* formed and not; the same texts as []byte, and the nil []byte; a number
SqlSource(t, n, s) == [type |-> t, nil |-> n, bytes |-> s]
SqlSources ==
    { SqlSource("nil", TRUE, <<>>), SqlSource("[]byte", TRUE, <<>>),
      SqlSource("int64", FALSE, <<>>) }
    \cup { SqlSource(t, FALSE, s) : t \in {"string", "[]byte"},
                                    s \in WellFormedTexts \cup DeviantTexts }

\* the targets: empty, nil, and a mapping that holds a pair
SqlTargets(v) ==
    ScanTargets(v) \cup
    { IF v = "hstore" THEN Hstore(MapPut(EmptyMap, <<120>>, NewText(<<121>>)))
      ELSE HstoreCompat(MapPut(EmptyMap, <<120>>, Ptr(1, 1)), << << <<121>> >> >>) }

\* err := target.Scan(src) of database/sql, for a src of any type
SqlScanAny ==
    /\ op = "init"
    /\ \E v \in Variants, src \in SqlSources :
          \E dst \in SqlTargets(v) :
              Scanned("sql_scan_any", v, "text", src, dst,
                      IF v = "hstore" THEN Hstore_ScanAny(src, dst)
                      ELSE HstoreCompat_ScanAny(src, dst))
    /\ UNCHANGED <<value, buf0, ret, typeMap, parser>>

NextSql ==
    \/ SqlValueHstore
    \/ SqlValueCompat
    \/ SqlScanValue
    \/ SqlScanAny
    \/ NextCase

SpecSql == Init /\ [][NextSql]_vars

----------------------------------------------------------------------------
(* Plan selection *)

Codecs == {"HstoreCodec", "HstoreCompatCodec"}

\* the format codes asked for: text, binary, and codes that are neither
FormatCodes == {-1, TextFormatCode, BinaryFormatCode, 2, 3}

\* the dynamic types of the values and targets handed to the codecs: the two
\* mapping types and the pointers to them, pgtype.Hstore and the pointer to
\* it, a string, and the nil interface
ValueTypes ==
    {"Hstore", "*Hstore", "HstoreCompat", "*HstoreCompat", "pgtype.Hstore", "*pgtype.Hstore",
     "string", "nil"}

FormatSupportedOf(c, fc) ==
    IF c = "HstoreCodec" THEN HstoreCodec_FormatSupported(fc)
    ELSE HstoreCompatCodec_FormatSupported(fc)

PreferredFormatOf(c) ==
    IF c = "HstoreCodec" THEN HstoreCodec_PreferredFormat ELSE HstoreCompatCodec_PreferredFormat

\* what a codec answered: to FormatSupported(format), to PreferredFormat(), and
\* to PlanEncode or PlanScan for the format and a value or target of type t
Planned(name, c, fc, t, plan) ==
    /\ op' = name
    /\ ret' = [kind |-> "plan", codec |-> c, format |-> fc, type |-> t, plan |-> plan,
               supported |-> FormatSupportedOf(c, fc),
               preferred |-> PreferredFormatOf(c),
               preferredSupported |-> FormatSupportedOf(c, PreferredFormatOf(c))]
    /\ UNCHANGED <<variant, format, value, buf0, wire, target, before, calls, err, typeMap, parser>>

\* plan := codec.PlanEncode(nil, 0, format, value)
PlanEncode ==
    /\ op = "init"
    /\ \E c \in Codecs, fc \in FormatCodes, t \in ValueTypes :
          Planned("plan_encode", c, fc, t,
                  IF c = "HstoreCodec" THEN HstoreCodec_PlanEncode(fc, t)
                  ELSE HstoreCompatCodec_PlanEncode(fc, t))

\* plan := codec.PlanScan(nil, 0, format, target)
PlanScan ==
    /\ op = "init"
    /\ \E c \in Codecs, fc \in FormatCodes, t \in ValueTypes :
          Planned("plan_scan", c, fc, t,
                  IF c = "HstoreCodec" THEN HstoreCodec_PlanScan(fc, t)
                  ELSE HstoreCompatCodec_PlanScan(fc, t))

NextPlans ==
    \/ PlanEncode
    \/ PlanScan
    \/ NextCase

SpecPlans == Init /\ [][NextPlans]_vars

----------------------------------------------------------------------------
(* Registration of the type with a connection *)

\* What conn.QueryRow(ctx, `select oid from pg_type where typname = 'hstore'`)
\* .Scan(&hstoreOID) can do: set the OID and return nil, or return an error,
\* pgx.ErrNoRows when the query has no row.
QueryRowScan(oid, e) == [oid |-> oid, err |-> e]

\* the OIDs a database can have given to hstore (an extension's types come
\* after the built-in ones)
HstoreOIDs == {16385, 16440, 33099}

QueryOutcomes ==
    { QueryRowScan(oid, NoErr) : oid \in HstoreOIDs }
    \cup { QueryRowScan(0, e) : e \in {ErrNoRows, Err("conn closed", -1, -1),
                                       Err("context canceled", -1, -1)} }

\* a plausible slip: every error of the query taken for a missing type
queryHstoreOIDAnyError(q) ==
    IF q.err # NoErr THEN [oid |-> 0, err |-> ErrHstoreDoesNotExist]
    ELSE [oid |-> q.oid, err |-> NoErr]

\* queryHstoreOID, q being what the query and its Scan did
queryHstoreOID(q) ==
    IF q.err # NoErr
    THEN IF q.err = ErrNoRows THEN [oid |-> 0, err |-> ErrHstoreDoesNotExist]
         ELSE [oid |-> 0, err |-> q.err]
    ELSE [oid |-> q.oid, err |-> NoErr]

\* conn.TypeMap().RegisterType(t): t is entered under its OID and under its name
RegisterType(tm, t) ==
    [oidToType |-> MapPut(tm.oidToType, t.OID, t),
     nameToType |-> MapPut(tm.nameToType, t.Name, t)]

\* the end of RegisterHstore, r being what queryHstoreOID returned:
\* return err, or register the type and return nil
registerWith(r, tm) ==
    IF r.err # NoErr THEN [typeMap |-> tm, err |-> r.err]
    ELSE [typeMap |-> RegisterType(tm, [Codec |-> "HstoreCodec", Name |-> "hstore",
                                        OID |-> r.oid]),
          err |-> NoErr]

\* RegisterHstore(ctx, conn), q being what the query does and tm conn's type map
RegisterHstore(q, tm) == registerWith(queryHstoreOID(q), tm)

\* what a call returned, with the outcome q of its query and the type map
\* before it
Resolved(name, q, r, tm) ==
    /\ op' = name
    /\ err' = r.err
    /\ ret' = [kind |-> "oid", query |-> q, oid |-> r.oid, typeMapBefore |-> typeMap]
    /\ typeMap' = tm
    /\ UNCHANGED <<variant, format, value, buf0, wire, target, before, calls, parser>>

\* hstoreOID, err := queryHstoreOID(ctx, conn)
LookupOID ==
    /\ op \in {"init", "register"}
    /\ \E q \in QueryOutcomes : Resolved("query_oid", q, queryHstoreOID(q), typeMap)

\* err := RegisterHstore(ctx, conn); a connection may be registered with again
Register ==
    /\ op \in {"init", "register"}
    /\ \E q \in QueryOutcomes :
          Resolved("register", q, [oid |-> 0, err |-> RegisterHstore(q, typeMap).err],
                   RegisterHstore(q, typeMap).typeMap)

NextRegister ==
    \/ LookupOID
    \/ Register
    \/ NextCase

SpecRegister == Init /\ [][NextRegister]_vars

----------------------------------------------------------------------------
(* Scans of the four scan plans into targets that hold a mapping already *)

\* the inputs of a format: texts and messages, well formed and not
DecodeInputs(f) ==
    IF f = "text" THEN WellFormedTexts \cup DeviantTexts ELSE BinaryInputs

\* err := scanPlan.Scan(src, dst) for a target dst that is empty, nil, or
\* holds a pair from an earlier scan
ScanInto ==
    /\ op = "init"
    /\ \E v \in Variants, f \in {"text", "binary"} :
          \E s \in DecodeInputs(f), dst \in SqlTargets(v) :
              Scanned("scan_into", v, f, Bytes(s), dst, ScanWith(v, f, Bytes(s), dst))
    /\ UNCHANGED <<value, buf0, ret, typeMap, parser>>

NextDecode ==
    \/ ParseText
    \/ ScanBinary
    \/ ScanInto
    \/ NextCase

SpecDecode == Init /\ [][NextDecode]_vars

----------------------------------------------------------------------------
(* Encode into a buffer that holds bytes already *)

\* the caller-supplied buffers: nil, empty, and two that hold bytes
AppendBufs == InputBufs \cup { Bytes(<<7>>), Bytes(<<DQ, BS>>) }

\* the state after newBuf, err := plan.Encode(input, buf): Encode assigns to
\* its own buf only, so the mapping is as it was handed in
EncodedInto(v, f, input, buf, r) ==
    /\ op' = "encode_append"
    /\ variant' = v
    /\ format' = f
    /\ ret' = [kind |-> "encode", input |-> input]
    /\ value' = input
    /\ buf0' = buf
    /\ wire' = r.buf
    /\ err' = r.err
    /\ UNCHANGED <<target, before, calls, typeMap, parser>>

\* buf, err = encodePlan.Encode(typeSpecificInput, buf) of the four plans
EncodeAppend ==
    /\ op = "init"
    /\ \E v \in Variants, f \in {"text", "binary"}, h \in InputHstores, buf \in AppendBufs :
          \E order \in Orders(DOMAIN h.m) :
              IF v = "hstore"
              THEN EncodedInto(v, f, h, buf, EncodeWith(v, f, h, buf, order))
              ELSE EncodedInto(v, f, compatInput(h, order), buf,
                               EncodeWith(v, f, compatInput(h, order), buf, order))

NextAppend ==
    \/ EncodeAppend
    \/ NextCase

SpecAppend == Init /\ [][NextAppend]_vars

----------------------------------------------------------------------------
(* DecodeValue of the two codecs *)

\* scanPlan.Scan(src, dst) of the plan that PlanScan returned
ScanPlan_Scan(plan, src, dst) ==
    IF plan = "scanPlanBinaryHstoreToHstoreScanner"
    THEN scanPlanBinaryHstoreToHstoreScanner_Scan(src, dst)
    ELSE IF plan = "scanPlanTextAnyToHstoreScanner"
    THEN scanPlanTextAnyToHstoreScanner_Scan(src, dst)
    ELSE IF plan = "scanPlanBinaryHstoreToHstoreCompatScanner"
    THEN scanPlanBinaryHstoreToHstoreCompatScanner_Scan(src, dst)
    ELSE scanPlanTextAnyToHstoreCompatScanner_Scan(src, dst)

\* codecScan(codec, m, oid, format, src, dst), plan being what codec.PlanScan
\* returned for dst
codecScan(plan, src, dst) ==
    IF plan = NilPlan THEN ScanResult(dst, 0, ErrNoPlan)
    ELSE ScanPlan_Scan(plan, src, dst)

\* what DecodeValue returns after codecScan returned r into its local hstore:
\* return nil, err or return hstore, nil
decoded(r) ==
    IF r.err # NoErr THEN [nil |-> TRUE, type |-> "nil", h |-> NilHstore, err |-> r.err]
    ELSE [nil |-> FALSE, type |-> "Hstore", h |-> r.dst, err |-> NoErr]

\* HstoreCodec.DecodeValue(m, oid, format, src): var hstore Hstore;
\* codecScan(c, m, oid, format, src, &hstore)
HstoreCodec_DecodeValue(fc, src) ==
    IF src.nil THEN [nil |-> TRUE, type |-> "nil", h |-> NilHstore, err |-> NoErr]
    ELSE decoded(codecScan(HstoreCodec_PlanScan(fc, "*Hstore"), src, NilHstore))

\* HstoreCompatCodec.DecodeValue: its local is declared var hstore Hstore as well
HstoreCompatCodec_DecodeValue(fc, src) ==
    IF src.nil THEN [nil |-> TRUE, type |-> "nil", h |-> NilHstore, err |-> NoErr]
    ELSE decoded(codecScan(HstoreCompatCodec_PlanScan(fc, "*Hstore"), src, NilHstore))

\* the name of the format with code fc
FormatOf(fc) == IF fc = TextFormatCode THEN "text" ELSE "binary"

\* value, err := codec.DecodeValue(m, oid, format, src)
DecodeValue ==
    /\ op = "init"
    /\ \E c \in Codecs, fc \in {TextFormatCode, BinaryFormatCode} :
          \E src \in {NilBytes} \cup {Bytes(s) : s \in DecodeInputs(FormatOf(fc))} :
              /\ variant' = IF c = "HstoreCodec" THEN "hstore" ELSE "compat"
              /\ format' = FormatOf(fc)
              /\ wire' = src
              /\ ret' = IF c = "HstoreCodec" THEN HstoreCodec_DecodeValue(fc, src)
                        ELSE HstoreCompatCodec_DecodeValue(fc, src)
              /\ err' = IF c = "HstoreCodec" THEN HstoreCodec_DecodeValue(fc, src).err
                        ELSE HstoreCompatCodec_DecodeValue(fc, src).err
    /\ op' = "decode_value"
    /\ UNCHANGED <<value, buf0, target, before, calls, typeMap, parser>>

NextValue ==
    \/ DecodeValue
    \/ NextCase

SpecValue == Init /\ [][NextValue]_vars

----------------------------------------------------------------------------
(* The parser, one parser operation at a time *)

\* the inputs parsed one operation at a time
ParserInputs == TextInputs

\* the inputs of the parses followed to their return: the well-formed texts,
\* every text one edit away from a text of one pair, and the deviant texts
OnePairTexts == { GrammarText(<<pr>>) : pr \in RawPairs }
ReturnInputs ==
    WellFormedTexts \cup UNION { Edits(s) : s \in OnePairTexts } \cup DeviantTexts

\* The parser of a parse in progress: phase is the place in the code (the next
\* operation), p the hstoreParser, first, key, val and result the locals of
\* the pair loop, arrays and vs the valueStrings of parseHstoreCompat; pairs
\* counts the pairs stored, loops the iterations of the pair loop begun,
\* loopPos is p.pos at the start of the current one, iterations counts the
\* iterations of the escape loop; entry, resume and builder belong to the call
\* of consumeDoubleQuoted in progress, quoted records the last one returned.

\* no call of consumeDoubleQuoted has returned yet
NoQuoted == [entry |-> -1, s |-> <<>>, err |-> NoErr, pos |-> -1]

\* a plausible slip: the estimate counts the pair separators, one short of the
\* pairs
parserStartCountCommas(s) ==
    [phase |-> "loop", p |-> newHSP(s), first |-> TRUE, key |-> <<>>, val |-> NullText,
     result |-> EmptyMap, arrays |-> << <<>> >>,
     vs |-> [arr |-> 1, len |-> 0, cap |-> CountByte(s, COMMA)],
     pairs |-> 0, loops |-> 0, loopPos |-> 0, entry |-> -1, resume |-> "none",
     builder |-> <<>>, iterations |-> 0, quoted |-> NoQuoted, err |-> NoErr]

\* p := newHSP(s); result := make(..., numPairsEstimate); first := true
\* (and valueStrings := make([]string, 0, numPairsEstimate) in parseHstoreCompat)
parserStart(s) ==
    [phase |-> "loop", p |-> newHSP(s), first |-> TRUE, key |-> <<>>, val |-> NullText,
     result |-> EmptyMap, arrays |-> << <<>> >>,
     vs |-> [arr |-> 1, len |-> 0, cap |-> CountByte(s, GT)],
     pairs |-> 0, loops |-> 0, loopPos |-> 0, entry |-> -1, resume |-> "none",
     builder |-> <<>>, iterations |-> 0, quoted |-> NoQuoted, err |-> NoErr]

\* return nil, err
parserFail(m, p, e) == [m EXCEPT !.p = p, !.phase = "failed", !.err = e]

\* the parser after an operation that returned r = [p, err], next being the
\* place in the pair loop that follows when err is nil
afterOperation(m, r, next) ==
    IF r.err # NoErr THEN parserFail(m, r.p, r.err)
    ELSE [m EXCEPT !.p = r.p, !.phase = next]

\* for !p.atEnd() { if !first { ... } else { first = false } ... }
loopTest(m) ==
    IF atEnd(m.p) THEN [m EXCEPT !.phase = "done"]
    ELSE IF ~m.first
    THEN [m EXCEPT !.phase = "separator", !.loops = m.loops + 1, !.loopPos = m.p.pos]
    ELSE [m EXCEPT !.first = FALSE, !.phase = "quote", !.loops = m.loops + 1,
                   !.loopPos = m.p.pos]

\* consumeDoubleQuoted has returned r = [p, s, err] to the pair loop (for the
\* key) or to consumeDoubleQuotedOrNull (for the value)
quotedReturn(m, r) ==
    IF r.err # NoErr
    THEN [m EXCEPT !.p = r.p, !.phase = "failed", !.err = r.err, !.builder = <<>>,
                   !.quoted = [entry |-> m.entry, s |-> r.s, err |-> r.err, pos |-> r.p.pos]]
    ELSE IF m.resume = "key"
    THEN [m EXCEPT !.p = r.p, !.phase = "kv", !.key = r.s, !.builder = <<>>,
                   !.quoted = [entry |-> m.entry, s |-> r.s, err |-> r.err, pos |-> r.p.pos]]
    ELSE [m EXCEPT !.p = r.p, !.phase = "store", !.val = NewText(r.s), !.builder = <<>>,
                   !.quoted = [entry |-> m.entry, s |-> r.s, err |-> r.err, pos |-> r.p.pos]]

\* a plausible slip: the fast path alone, whatever backslash lies before the
\* next double quote
quotedEntryFastOnly(m, rel) ==
    IF rel = -1 THEN quotedReturn(m, [p |-> m.p, s |-> <<>>, err |-> errEOSInQuoted])
    ELSE quotedReturn(m, [p |-> [m.p EXCEPT !.pos = rel + m.p.pos + 1],
                          s |-> Slice(m.p.str, m.p.pos, rel + m.p.pos),
                          err |-> NoErr])

\* consumeDoubleQuoted up to the for loop of consumeDoubleQuotedWithEscapes, m
\* being the parser at the call with its entry position noted and rel the
\* place of the next double quote after p.pos
quotedEntry(m, rel) ==
    IF rel = -1 THEN quotedReturn(m, [p |-> m.p, s |-> <<>>, err |-> errEOSInQuoted])
    ELSE IF m.p.nextBackslash = -1 \/ m.p.nextBackslash > rel + m.p.pos
    THEN quotedReturn(m, [p |-> [m.p EXCEPT !.pos = rel + m.p.pos + 1],
                          s |-> Slice(m.p.str, m.p.pos, rel + m.p.pos),
                          err |-> NoErr])
    ELSE IF ~SliceOK(m.p.str, m.p.pos, m.p.nextBackslash)
    THEN quotedReturn(m, [p |-> m.p, s |-> <<>>, err |-> Panic])
    ELSE [m EXCEPT !.phase = "escape_loop",
                   !.builder = Slice(m.p.str, m.p.pos, m.p.nextBackslash),
                   !.p = [m.p EXCEPT !.pos = m.p.nextBackslash]]

enterQuoted(m) ==
    quotedEntry([m EXCEPT !.entry = m.p.pos, !.resume = IF m.phase = "key" THEN "key" ELSE "value"],
                IndexByte(Slice(m.p.str, m.p.pos, Len(m.p.str)), DQ))

\* a plausible slip: the loop goes round without a byte consumed or copied
escapeAppendStuck(m, p, b) == m

\* the for loop of consumeDoubleQuotedWithEscapes goes on with the byte b appended
escapeAppend(m, p, b) == [m EXCEPT !.p = p, !.builder = Append(m.builder, b)]

\* one iteration of the for loop of consumeDoubleQuotedWithEscapes, c being the
\* byte it consumes and c2 the one after it; when the loop ends,
\* consumeDoubleQuoted looks up the next backslash again and returns
escapeIteration(m, c, c2) ==
    IF c.end
    THEN quotedReturn(m, refreshNextBackslash([p |-> c.p, s |-> <<>>, err |-> errEOSInQuoted]))
    ELSE IF c.b = DQ
    THEN quotedReturn(m, refreshNextBackslash([p |-> c.p, s |-> m.builder, err |-> NoErr]))
    ELSE IF c.b = BS
    THEN IF c2.end
         THEN quotedReturn(m, refreshNextBackslash([p |-> c2.p, s |-> <<>>,
                                                    err |-> errEOSInQuoted]))
         ELSE IF ~(c2.b = BS \/ c2.b = DQ)
         THEN quotedReturn(m, refreshNextBackslash([p |-> c2.p, s |-> <<>>,
                                                    err |-> ErrUnexpectedEscape(c2.b)]))
         ELSE escapeAppend(m, c2.p, c2.b)
    ELSE escapeAppend(m, c.p, c.b)

\* consumeDoubleQuotedOrNull up to the operation that reads the value
valueEntry(m) ==
    IF atEnd(m.p) THEN parserFail(m, m.p, ErrEndInsteadOfValue)
    ELSE IF m.p.str[m.p.pos + 1] = BN THEN [m EXCEPT !.phase = "null_nu"]
    ELSE IF m.p.str[m.p.pos + 1] # DQ
    THEN parserFail(m, m.p, unexpectedByteErr(m.p.str[m.p.pos + 1], DQ))
    ELSE [m EXCEPT !.p = [m.p EXCEPT !.pos = m.p.pos + 1], !.phase = "value_string"]

\* result[key] = value of parseHstore
storeHstore(m) ==
    [m EXCEPT !.result = MapPut(m.result, m.key, m.val), !.pairs = m.pairs + 1,
              !.phase = "loop"]

\* the end of an iteration of parseHstoreCompat, a being valueStrings with the
\* value appended
storeCompat(m, a) ==
    IF m.val.Valid
    THEN [m EXCEPT !.result = MapPut(m.result, m.key, Ptr(a.vs.arr, a.vs.len)),
                   !.arrays = a.arrays, !.vs = a.vs, !.pairs = m.pairs + 1, !.phase = "loop"]
    ELSE [m EXCEPT !.result = MapPut(m.result, m.key, NilPtr), !.pairs = m.pairs + 1,
                   !.phase = "loop"]

\* the parser is left as m by an operation of the parse in progress
ParserStep(m) ==
    /\ parser' = m
    /\ op' = IF m.phase \in {"done", "failed"} THEN "parsed" ELSE "parsing"
    /\ err' = m.err
    /\ UNCHANGED <<variant, format, value, buf0, wire, target, before, calls, ret, typeMap>>

\* parseHstore(s) or parseHstoreCompat(s) is called for an s of inputs
ParseStartOf(inputs) ==
    /\ op = "init"
    /\ \E v \in Variants, s \in inputs :
        /\ variant' = v
        /\ wire' = Bytes(s)
        /\ parser' = parserStart(s)
    /\ op' = "parsing"
    /\ format' = "text"
    /\ UNCHANGED <<value, buf0, target, before, calls, err, ret, typeMap>>

ParseStart == ParseStartOf(ParserInputs)

ParseStartToReturn == ParseStartOf(ReturnInputs)

LoopTest ==
    /\ op = "parsing" /\ parser.phase = "loop"
    /\ ParserStep(loopTest(parser))

PairSeparator ==
    /\ op = "parsing" /\ parser.phase = "separator"
    /\ ParserStep(afterOperation(parser, consumePairSeparator(parser.p), "quote"))

KeyQuote ==
    /\ op = "parsing" /\ parser.phase = "quote"
    /\ ParserStep(afterOperation(parser, consumeExpectedByte(parser.p, DQ), "key"))

KeyString ==
    /\ op = "parsing" /\ parser.phase = "key"
    /\ ParserStep(enterQuoted(parser))

EscapeLoop ==
    /\ op = "parsing" /\ parser.phase = "escape_loop"
    /\ ParserStep(escapeIteration([parser EXCEPT !.iterations = parser.iterations + 1],
                                  consume(parser.p), consume(consume(parser.p).p)))

KVSeparator ==
    /\ op = "parsing" /\ parser.phase = "kv"
    /\ ParserStep(afterOperation(parser, consumeKVSeparator(parser.p), "value"))

ValueStart ==
    /\ op = "parsing" /\ parser.phase = "value"
    /\ ParserStep(valueEntry(parser))

NullNU ==
    /\ op = "parsing" /\ parser.phase = "null_nu"
    /\ ParserStep(afterOperation(parser, consumeExpected2(parser.p, BN, BU), "null_ll"))

NullLL ==
    /\ op = "parsing" /\ parser.phase = "null_ll"
    /\ ParserStep(afterOperation([parser EXCEPT !.val = NullText],
                                 consumeExpected2(parser.p, BL, BL), "store"))

ValueString ==
    /\ op = "parsing" /\ parser.phase = "value_string"
    /\ ParserStep(enterQuoted(parser))

StorePair ==
    /\ op = "parsing" /\ parser.phase = "store"
    /\ ParserStep(IF variant = "hstore" THEN storeHstore(parser)
                  ELSE storeCompat(parser, appendString(parser.arrays, parser.vs,
                                                        parser.val.String)))

ParserOperation ==
    \/ LoopTest
    \/ PairSeparator
    \/ KeyQuote
    \/ KeyString
    \/ EscapeLoop
    \/ KVSeparator
    \/ ValueStart
    \/ NullNU
    \/ NullLL
    \/ ValueString
    \/ StorePair

NextParser ==
    \/ ParseStart
    \/ ParserOperation
    \/ NextCase

SpecParser == Init /\ [][NextParser]_vars

NextParserToReturn ==
    \/ ParseStartToReturn
    \/ ParserOperation
    \/ NextCase

\* a parse is one call that runs to its return: an operation that can be made
\* is made
SpecParserFair == Init /\ [][NextParserToReturn]_vars /\ WF_vars(ParserOperation)

\* the parse is over with what parseHstore / parseHstoreCompat returns for the input
ParserReturns ==
    op = "parsed" =>
        IF variant = "hstore"
        THEN /\ parseHstore(wire.bytes).err = parser.err
             /\ parser.err = NoErr => parseHstore(wire.bytes).h = Hstore(parser.result)
        ELSE /\ parseHstoreCompat(wire.bytes).err = parser.err
             /\ parser.err = NoErr =>
                    parseHstoreCompat(wire.bytes).h = HstoreCompat(parser.result, parser.arrays)

Next ==
    \/ NextRoundTrip
    \/ NextText
    \/ NextBinary
    \/ NextAdapters
    \/ NextSql
    \/ NextPlans
    \/ NextRegister
    \/ NextDecode
    \/ NextAppend
    \/ NextValue
    \/ NextParserToReturn
    \/ NextParser

Spec == Init /\ [][Next]_vars

----------------------------------------------------------------------------
(* The properties checked *)

\* the value a mapping of variant v holds for key k, as a pgtype.Text
ValueOf(v, h, k) ==
    IF v = "hstore" THEN h.m[k]
    ELSE IF h.m[k] = NilPtr THEN NullText ELSE NewText(Deref(h, h.m[k]))

\* the text of every list of pairs
TextOf == [ps \in PairLists |-> GrammarText(ps)]

\* the index of the last pair of ps with key k
LastIndex(ps, k) == CHOOSE i \in 1..Len(ps) :
    ps[i].key = k /\ \A j \in (i + 1)..Len(ps) : ps[j].key # k

\* C1: text round trip, both variants: for every mapping with at least one
\* pair, text Encode followed by text Scan succeeds and yields a mapping equal
\* to the input (same keys, absent stays absent, present strings identical).
C1_TextRoundTrip ==
    (op = "scan_encoded" /\ format = "text" /\ ~value.nil /\ DOMAIN value.m # {})
    => /\ err = NoErr
       /\ calls = 1
       /\ isScannedHstoreEqual(variant, value, target)

\* a two-pair HstoreCompat with a backslash and a double quote in a key, an
\* absent value and a present one, came back from its text
C1_Witness ==
    /\ op = "scan_encoded" /\ format = "text" /\ variant = "compat"
    /\ DOMAIN value.m = { <<BS, DQ>>, <<97, COMMA, SP, EQ, GT>> }
    /\ value.m[<<BS, DQ>>] = NilPtr
    /\ err = NoErr
    /\ DOMAIN target.m = DOMAIN value.m
    /\ target.m[<<BS, DQ>>] = NilPtr
    /\ ValueOf("compat", target, <<97, COMMA, SP, EQ, GT>>) = NewText(<<DQ, BS>>)

\* C2: binary round trip, both variants: for every present mapping (zero or
\* more pairs, any mix of present and absent values), binary Encode followed
\* by binary Scan succeeds and yields a mapping equal to the input, whatever
\* order the encoder visits the pairs in.
C2_BinaryRoundTrip ==
    (op = "scan_encoded" /\ format = "binary" /\ ~value.nil)
    => /\ err = NoErr
       /\ calls = 1
       /\ isScannedHstoreEqual(variant, value, target)

\* a two-pair Hstore with an absent and an empty value came back from its
\* binary encoding
C2_Witness ==
    /\ op = "scan_encoded" /\ format = "binary" /\ variant = "hstore"
    /\ DOMAIN value.m = { <<>>, <<BS, DQ>> }
    /\ value.m[<<>>] = NullText
    /\ value.m[<<BS, DQ>>] = NewText(<<>>)
    /\ err = NoErr
    /\ target = value

\* C3: NULL distinctness, both codecs and both formats: Encode of a nil
\* mapping returns nil and no error; Encode of an empty mapping that is not
\* nil into a nil buffer returns an output that is not nil; Scan of the two
\* outputs gives back the nil mapping and the empty mapping.
C3_NullDistinct ==
    /\ (op = "encode" /\ value.nil) => (wire.nil /\ err = NoErr)
    /\ (op = "encode" /\ ~value.nil /\ DOMAIN value.m = {} /\ buf0.nil)
       => (~wire.nil /\ err = NoErr)
    /\ (op = "scan_encoded" /\ value.nil) => (err = NoErr /\ target.nil)
    /\ (op = "scan_encoded" /\ ~value.nil /\ DOMAIN value.m = {} /\ buf0.nil)
       => (err = NoErr /\ ~target.nil /\ DOMAIN target.m = {})

\* C4: binary truncation, both binary scan plans: the Scan of every strict
\* prefix of a binary encoding returns the 'hstore incomplete' error, does
\* not panic, and delivers no mapping to the target.
C4_TruncationIncomplete ==
    op = "scan_truncated" => (err = ErrIncomplete /\ calls = 0 /\ target = before)

\* C5: text grammar acceptance: parseHstore and parseHstoreCompat return a
\* mapping and no error exactly for the strings of the grammar; every other
\* string yields an error (not a panic) and no mapping.
C5_GrammarAcceptance ==
    op = "parse_text"
    => /\ (err = NoErr) <=> InGrammar(wire.bytes)
       /\ err = NoErr => (calls = 1 /\ ~target.nil)
       /\ err # NoErr => (err # Panic /\ calls = 0 /\ target = before)

\* a two-pair text with an escaped backslash and a NULL was accepted by
\* parseHstoreCompat
C5_Witness ==
    /\ op = "parse_text" /\ variant = "compat"
    /\ wire.bytes = <<DQ, BS, BS, DQ, EQ, GT, BN, BU, BL, BL, COMMA, SP,
                      DQ, 97, DQ, EQ, GT, DQ, BS, DQ, DQ>>
    /\ InGrammar(wire.bytes)
    /\ err = NoErr
    /\ calls = 1

\* C6: duplicate keys in the text parser, both variants: when a key occurs in
\* several pairs of a text, the parse succeeds, the result holds one entry per
\* distinct key, and the value of a key is that of its last pair in the text.
C6_LastOccurrenceWins ==
    \A ps \in PairLists :
        (/\ op = "parse_text"
         /\ wire.bytes = TextOf[ps]
         /\ \E i, j \in 1..Len(ps) : i # j /\ ps[i].key = ps[j].key)
        => /\ err = NoErr
           /\ ~target.nil
           /\ DOMAIN target.m = {ps[i].key : i \in 1..Len(ps)}
           /\ \A k \in DOMAIN target.m :
                 ValueOf(variant, target, k) = ps[LastIndex(ps, k)].value

\* "a"=>"NULL", "a"=>NULL was parsed: one entry, the absent value of the last pair
C6_Witness ==
    /\ op = "parse_text" /\ variant = "hstore"
    /\ wire.bytes = <<DQ, 97, DQ, EQ, GT, DQ, BN, BU, BL, BL, DQ, COMMA, SP,
                      DQ, 97, DQ, EQ, GT, BN, BU, BL, BL>>
    /\ err = NoErr
    /\ DOMAIN target.m = { <<97>> }
    /\ target.m[<<97>>] = NullText

\* C7: NULL literal parsing: where a value starts, the 4 bytes NULL yield an
\* absent value and the quoted "NULL" the present string NULL; a value that
\* starts with N and is not NULL (or ends before 4 bytes), and a value that
\* starts with a byte other than N and the double quote, is a parse error.
C7_NullLiteral ==
    op = "parse_text"
    => /\ \A i \in 0..(Len(wire.bytes) - 1) :
             GrammarState(wire.bytes, i) = "value"
             => /\ wire.bytes[i + 1] \notin {BN, DQ}
                   => /\ err.kind = "expected_found"
                      /\ err.expected = DQ
                      /\ err.found = wire.bytes[i + 1]
                      /\ calls = 0
                /\ (/\ wire.bytes[i + 1] = BN
                    /\ \/ i + 4 > Len(wire.bytes)
                       \/ SubSeq(wire.bytes, i + 1, i + 4) # <<BN, BU, BL, BL>>)
                   => /\ err.kind \in {"expected_found", "unexpected end of string"}
                      /\ calls = 0
       /\ \A ps \in PairLists :
             (/\ ps # <<>>
              /\ wire.bytes = TextOf[ps]
              /\ ps[Len(ps)].value \in {NullText, NewText(<<BN, BU, BL, BL>>)})
             => /\ err = NoErr
                /\ ps[Len(ps)].key \in DOMAIN target.m
                /\ ValueOf(variant, target, ps[Len(ps)].key) = ps[Len(ps)].value

\* "a"=>"NULL" was parsed: the value is the present string NULL
C7_Witness ==
    /\ op = "parse_text" /\ variant = "hstore"
    /\ wire.bytes = <<DQ, 97, DQ, EQ, GT, DQ, BN, BU, BL, BL, DQ>>
    /\ err = NoErr
    /\ target.m[<<97>>] = NewText(<<BN, BU, BL, BL>>)

\* C8: empty versus absent on decode, both variants: the scan of the empty
\* text (not nil) yields an empty mapping that is not nil, by the text plan
\* and by database/sql's Scan; the scan of a nil input (text plan, binary
\* plan, database/sql's Scan) sets the target to the nil mapping.
C8_EmptyVersusAbsent ==
    /\ (op \in {"scan_nil_or_empty", "sql_scan"} /\ wire.nil)
       => (err = NoErr /\ target.nil)
    /\ (op \in {"scan_nil_or_empty", "sql_scan"} /\ format = "text"
        /\ ~wire.nil /\ wire.bytes = <<>>)
       => (err = NoErr /\ ~target.nil /\ DOMAIN target.m = {})

\* the text plan scanned nil into a target that held an empty mapping
C8_Witness ==
    /\ op = "scan_nil_or_empty" /\ variant = "hstore" /\ format = "text"
    /\ wire.nil
    /\ ~before.nil
    /\ target.nil
    /\ calls = 1

\* the opening double quote of the string the reader of the grammar is in
\* after the first i bytes of s
StringOpen(s, i) ==
    CHOOSE j \in 1..i :
        /\ GrammarState(s, j - 1) \in {"start", "pair", "value"}
        /\ \A n \in (j + 1)..i : GrammarState(s, n - 1) \notin {"start", "pair", "value"}

\* C9 as stated: inside a quoted key or value, a backslash followed by a byte
\* other than backslash and double quote fails the parse with the 'unexpected
\* escape' error and no mapping; a backslash that is the last byte of the
\* input fails with 'found end before closing double-quote'.
C9_EscapeErrors ==
    op = "parse_text"
    => \A i \in 1..Len(wire.bytes) :
          GrammarState(wire.bytes, i) \in {"keyescape", "escape"}
          => /\ (i < Len(wire.bytes) /\ wire.bytes[i + 1] \notin {BS, DQ})
                => (err = ErrUnexpectedEscape(wire.bytes[i + 1])
                    /\ calls = 0 /\ target = before)
             /\ i = Len(wire.bytes) => (err = errEOSInQuoted /\ calls = 0)

\* C9, amended: such a backslash fails the parse with no mapping: with the
\* 'unexpected escape' error when a double quote occurs anywhere after the
\* opening quote of its string, and with 'found end before closing
\* double-quote' when none does; a backslash that is the last byte of the
\* input fails with 'found end before closing double-quote'.
C9_EscapeErrorsAmended ==
    op = "parse_text"
    => \A i \in 1..Len(wire.bytes) :
          GrammarState(wire.bytes, i) \in {"keyescape", "escape"}
          => /\ (i < Len(wire.bytes) /\ wire.bytes[i + 1] \notin {BS, DQ})
                => /\ err = IF \E j \in (StringOpen(wire.bytes, i) + 1)..Len(wire.bytes) :
                                  wire.bytes[j] = DQ
                            THEN ErrUnexpectedEscape(wire.bytes[i + 1])
                            ELSE errEOSInQuoted
                   /\ calls = 0
                   /\ target = before
             /\ i = Len(wire.bytes) => (err = errEOSInQuoted /\ calls = 0)

\* "\l"=>NULL was refused with the 'unexpected escape' error
C9_Witness ==
    /\ op = "parse_text"
    /\ wire.bytes = <<DQ, BS, 108, DQ, EQ, GT, BN, BU, BL, BL>>
    /\ err = ErrUnexpectedEscape(108)
    /\ calls = 0

PairsOf(v, h, o) == [i \in 1..Len(o) |-> [key |-> o[i], value |-> ValueOf(v, h, o[i])]]

\* C12: text writer output shape, both variants: for a present mapping with at
\* least one pair the bytes appended are its pair encodings, each pair once,
\* joined by ", " with no leading or trailing separator; a pair is the quoted
\* escaped key, "=>", and the bare NULL for an absent value or the quoted
\* escaped value for a present one (the empty string and the string NULL
\* included); only backslash and double quote are escaped.
C12_TextOutputShape ==
    (op = "encode" /\ format = "text" /\ ~value.nil /\ DOMAIN value.m # {})
    => /\ err = NoErr
       /\ ~wire.nil
       /\ \E o \in Orders(DOMAIN value.m) :
             wire.bytes = buf0.bytes \o GrammarText(PairsOf(variant, value, o))

\* the text of an HstoreCompat with the present string NULL and an absent value
\* was written, the pair with the absent value last
C12_Witness ==
    /\ op = "encode" /\ format = "text" /\ variant = "compat"
    /\ ~value.nil
    /\ DOMAIN value.m = { <<>>, <<BS, DQ>> }
    /\ ValueOf("compat", value, <<>>) = NewText(<<BN, BU, BL, BL>>)
    /\ ValueOf("compat", value, <<BS, DQ>>) = NullText
    /\ wire.bytes = <<DQ, DQ, EQ, GT, DQ, BN, BU, BL, BL, DQ, COMMA, SP,
                      DQ, BS, BS, BS, DQ, DQ, EQ, GT, BN, BU, BL, BL>>

\* the 4 bytes of a length n of the binary format, most significant first
BigEndian32(n) == [i \in 1..4 |-> (n \div (256 ^ (4 - i))) % 256]

\* the binary encoding of one pair: key length, key, then the 4 bytes of -1
\* for an absent value or the value length and the value
BinaryPairBytes(pr) ==
    BigEndian32(Len(pr.key)) \o pr.key
    \o (IF pr.value.Valid
        THEN BigEndian32(Len(pr.value.String)) \o pr.value.String
        ELSE <<255, 255, 255, 255>>)

RECURSIVE BinaryPairsBytes(_)
BinaryPairsBytes(ps) ==
    IF ps = <<>> THEN <<>> ELSE BinaryPairBytes(Head(ps)) \o BinaryPairsBytes(Tail(ps))

\* C13: binary writer output shape, both variants: for a present mapping the
\* bytes appended are the 4-byte big-endian pair count, then for each entry
\* exactly once its 4-byte key length, the raw key, and the 4 bytes of -1 for
\* an absent value or the 4-byte value length and the raw value; a present
\* empty string has length 0, and no byte is escaped.
C13_BinaryOutputShape ==
    (op = "encode" /\ format = "binary" /\ ~value.nil)
    => /\ err = NoErr
       /\ ~wire.nil
       /\ \E o \in Orders(DOMAIN value.m) :
             wire.bytes = buf0.bytes \o BigEndian32(Cardinality(DOMAIN value.m))
                          \o BinaryPairsBytes(PairsOf(variant, value, o))

\* the binary encoding of the HstoreCompat {backslash quote: ""} was written:
\* one pair, the key unescaped, the value of length 0
C13_Witness ==
    /\ op = "encode" /\ format = "binary" /\ variant = "compat"
    /\ ~value.nil
    /\ DOMAIN value.m = { <<BS, DQ>> }
    /\ ValueOf("compat", value, <<BS, DQ>>) = NewText(<<>>)
    /\ wire.bytes = <<0, 0, 0, 1, 0, 0, 0, 2, BS, DQ, 0, 0, 0, 0>>

\* a pair of a message is well framed: its declared key length is that of its
\* key, and its value is absent (a negative length, no bytes) or declared with
\* its own length
WellFramed(fr) ==
    /\ fr.keyLen = Len(fr.key)
    /\ IF fr.valueLen < 0 THEN fr.value = <<>> ELSE fr.valueLen = Len(fr.value)

\* the well-framed messages: the count is the number of pairs, the keys differ
WellFramedLists ==
    { fs \in FrameLists :
        /\ \A i \in 1..Len(fs) : WellFramed(fs[i])
        /\ \A i, j \in 1..Len(fs) : i # j => fs[i].key # fs[j].key }

\* C14: binary reader value lengths, both variants: every negative value
\* length (-1 or any other) makes the key map to an absent value and consumes
\* no value bytes, the next pair starting right after the length; the value
\* length 0 yields a present empty string, distinct from absent.
C14_NegativeValueLength ==
    \A fs \in WellFramedLists :
        (op = "scan_binary" /\ wire.bytes = Message(Len(fs), fs))
        => /\ err = NoErr
           /\ calls = 1
           /\ ~target.nil
           /\ DOMAIN target.m = {fs[i].key : i \in 1..Len(fs)}
           /\ \A i \in 1..Len(fs) :
                 ValueOf(variant, target, fs[i].key) =
                    IF fs[i].valueLen < 0 THEN NullText ELSE NewText(fs[i].value)

\* a message of two pairs, the first with the value length -2, the second with
\* a one-byte value, was read by the HstoreCompat plan: absent, then the byte
C14_Witness ==
    /\ op = "scan_binary" /\ variant = "compat"
    /\ wire.bytes = <<0, 0, 0, 2, 0, 0, 0, 1, 97, 255, 255, 255, 254,
                      0, 0, 0, 1, 98, 0, 0, 0, 1, BS>>
    /\ err = NoErr
    /\ DOMAIN target.m = { <<97>>, <<98>> }
    /\ target.m[<<97>>] = NilPtr
    /\ ValueOf("compat", target, <<98>>) = NewText(<<BS>>)

\* C20: binary reader memory safety, both variants: for every buffer that is
\* not nil (a negative pair count, a negative key length, a key or value
\* length beyond the bytes that remain included) Scan ends by returning a
\* mapping or an error: no slice expression out of range, no allocation of a
\* negative size.
C20_BinaryMemorySafety ==
    (op = "scan_binary" /\ ~wire.nil)
    => /\ err # Panic
       /\ err = NoErr => calls = 1
       /\ err # NoErr => (calls = 0 /\ target = before)

\* C15: PGXToFasterHstore, pointer map to compact map: every key is kept, a
\* nil pointer becomes an absent value, a pointer to the empty string a
\* present empty string, a pointer to s the present s; a nil input mapping
\* converts to a nil mapping, not to an empty one; converting back to the
\* pointer form reproduces the input.
C15_AdapterPreserves ==
    /\ op = "convert"
       => /\ ret.nil = value.nil
          /\ DOMAIN ret.m = DOMAIN value.m
          /\ \A k \in DOMAIN value.m : ret.m[k] = ValueOf("compat", value, k)
    /\ op = "convert_back" => DeepEqualCompat(value, ret)

\* C16: database/sql Value of Hstore and of HstoreCompat: on a nil mapping it
\* returns (nil, nil); on every present mapping it returns, with no error and
\* no panic, a string equal to the text encoding of the mapping, and Scan of
\* the same type on that string yields a mapping equal to the original.
C16_SqlValue ==
    /\ (op = "sql_value" /\ value.nil) => (wire.nil /\ err = NoErr)
    /\ (op = "sql_value" /\ ~value.nil)
       => /\ err = NoErr
          /\ ~wire.nil
          /\ \E o \in Orders(DOMAIN value.m) :
                wire.bytes = GrammarText(PairsOf(variant, value, o))
    /\ op = "sql_scan_value"
       => /\ err = NoErr
          /\ isScannedHstoreEqual(variant, value, target)

\* C17: database/sql Scan of Hstore and of HstoreCompat: a nil source sets the
\* target to the nil mapping; a string source is parsed as the text format
\* and on success replaces the target; a source of any other type (a byte
\* slice and a number included) returns the 'cannot scan' error; on every
\* error, a string that fails to parse included, the target keeps the value
\* it had before the call.
C17_SqlScan ==
    op = "sql_scan_any"
    => /\ wire.type = "nil" => (err = NoErr /\ target.nil)
       /\ (wire.type = "string" /\ InGrammar(wire.bytes))
          => /\ err = NoErr
             /\ ~target.nil
             /\ \A ps \in PairLists :
                   wire.bytes = TextOf[ps]
                   => /\ DOMAIN target.m = {ps[i].key : i \in 1..Len(ps)}
                      /\ \A k \in DOMAIN target.m :
                            ValueOf(variant, target, k) = ps[LastIndex(ps, k)].value
       /\ (wire.type = "string" /\ ~InGrammar(wire.bytes))
          => (err \notin {NoErr, Panic})
       /\ wire.type \notin {"nil", "string"} => err.kind = "cannot scan"
       /\ err # NoErr => target = before

\* the text "a"=>NULL handed over as a []byte to a target that holds a pair
\* was refused, and the target still holds the pair
C17_Witness ==
    /\ op = "sql_scan_any" /\ variant = "hstore"
    /\ wire.type = "[]byte"
    /\ wire.bytes = <<DQ, 97, DQ, EQ, GT, BN, BU, BL, BL>>
    /\ err.kind = "cannot scan"
    /\ DOMAIN before.m = { <<120>> }
    /\ target = before

\* the types with the capability a codec asks of a value (to produce its
\* mapping) and of a target (to take one): the mapping type of the codec's
\* variant and the pointer to it, and the pointer alone
Producers(c) == IF c = "HstoreCodec" THEN {"Hstore", "*Hstore"}
                ELSE {"HstoreCompat", "*HstoreCompat"}
Consumers(c) == IF c = "HstoreCodec" THEN {"*Hstore"} ELSE {"*HstoreCompat"}

\* the plans of a codec, per format
PlansOf(c, which, fc) ==
    IF c = "HstoreCodec"
    THEN IF which = "plan_encode"
         THEN IF fc = TextFormatCode THEN "encodePlanHstoreCodecText"
              ELSE "encodePlanHstoreCodecBinary"
         ELSE IF fc = TextFormatCode THEN "scanPlanTextAnyToHstoreScanner"
              ELSE "scanPlanBinaryHstoreToHstoreScanner"
    ELSE IF which = "plan_encode"
         THEN IF fc = TextFormatCode THEN "encodePlanHstoreCompatCodecText"
              ELSE "encodePlanHstoreCompatCodecBinary"
         ELSE IF fc = TextFormatCode THEN "scanPlanTextAnyToHstoreCompatScanner"
              ELSE "scanPlanBinaryHstoreToHstoreCompatScanner"

\* C18: plan selection, HstoreCodec and HstoreCompatCodec: FormatSupported is
\* true for exactly the text and binary codes; PreferredFormat is binary and
\* supported; PlanEncode returns a plan exactly when the format is supported
\* and the value can produce the codec's mapping, PlanScan exactly when the
\* format is supported and the target can take it; otherwise none; and the
\* plan of one variant is never returned for a value or target of the other.
C18_PlanSelection ==
    op \in {"plan_encode", "plan_scan"}
    => /\ ret.supported <=> ret.format \in {TextFormatCode, BinaryFormatCode}
       /\ ret.preferred = BinaryFormatCode
       /\ ret.preferredSupported
       /\ op = "plan_encode"
          => ((ret.plan # "nil") <=> (ret.supported /\ ret.type \in Producers(ret.codec)))
       /\ op = "plan_scan"
          => ((ret.plan # "nil") <=> (ret.supported /\ ret.type \in Consumers(ret.codec)))
       /\ ret.plan # "nil" => ret.plan = PlansOf(ret.codec, op, ret.format)

\* HstoreCodec was asked for a text encode plan for an HstoreCompat: none
C18_Witness ==
    /\ op = "plan_encode"
    /\ ret.codec = "HstoreCodec"
    /\ ret.format = TextFormatCode
    /\ ret.type = "HstoreCompat"
    /\ ret.supported
    /\ ret.plan = "nil"

\* C19: OID resolution: queryHstoreOID returns ErrHstoreDoesNotExist exactly
\* when the query reports no rows, every other error of the query unchanged,
\* and the OID with no error otherwise; RegisterHstore registers the codec in
\* the connection's type map only when the lookup succeeded, and leaves the
\* type map as it was on any error.
C19_OIDResolution ==
    /\ op = "query_oid"
       => /\ (err.kind = "postgres type hstore does not exist")
             <=> (ret.query.err.kind = "no rows in result set")
          /\ (ret.query.err # NoErr /\ ret.query.err.kind # "no rows in result set")
             => err = ret.query.err
          /\ ret.query.err = NoErr => (err = NoErr /\ ret.oid = ret.query.oid)
          /\ typeMap = ret.typeMapBefore
    /\ op = "register"
       => /\ (err = NoErr) <=> (ret.query.err = NoErr)
          /\ err # NoErr => typeMap = ret.typeMapBefore
          /\ err = NoErr
             => /\ ret.query.oid \in DOMAIN typeMap.oidToType
                /\ typeMap.oidToType[ret.query.oid].Codec = "HstoreCodec"
                /\ typeMap.oidToType[ret.query.oid].OID = ret.query.oid
                /\ typeMap.nameToType["hstore"] = typeMap.oidToType[ret.query.oid]
                /\ \A o \in DOMAIN ret.typeMapBefore.oidToType :
                      o # ret.query.oid
                      => /\ o \in DOMAIN typeMap.oidToType
                         /\ typeMap.oidToType[o] = ret.typeMapBefore.oidToType[o]

\* RegisterHstore on a connection that has the type registered met a database
\* without the type: ErrHstoreDoesNotExist, and the type map is as it was
C19_Witness ==
    /\ op = "register"
    /\ ret.query.err.kind = "no rows in result set"
    /\ err.kind = "postgres type hstore does not exist"
    /\ DOMAIN ret.typeMapBefore.oidToType # {}
    /\ typeMap = ret.typeMapBefore

\* A reference reader of a quoted string: from position i of str (counted from
\* 0, just after the opening quote) it reads one byte at a time, a backslash
\* taking the byte after it, up to the first double quote that is not escaped.
RECURSIVE ReferenceUnescape(_, _, _)
ReferenceUnescape(str, i, acc) ==
    IF i >= Len(str) THEN [s |-> <<>>, err |-> errEOSInQuoted, pos |-> i]
    ELSE IF str[i + 1] = DQ THEN [s |-> acc, err |-> NoErr, pos |-> i + 1]
    ELSE IF str[i + 1] = BS
    THEN IF i + 1 >= Len(str) THEN [s |-> <<>>, err |-> errEOSInQuoted, pos |-> i + 1]
         ELSE IF str[i + 2] \in {BS, DQ}
         THEN ReferenceUnescape(str, i + 2, Append(acc, str[i + 2]))
         ELSE [s |-> <<>>, err |-> ErrUnexpectedEscape(str[i + 2]), pos |-> i + 2]
    ELSE ReferenceUnescape(str, i + 1, Append(acc, str[i + 1]))

\* what the reference reader returns for the last call of consumeDoubleQuoted
ReferenceQuoted == ReferenceUnescape(wire.bytes, parser.quoted.entry, <<>>)

\* a call of consumeDoubleQuoted has returned in the parse in progress
QuotedReturned == op \in {"parsing", "parsed"} /\ parser.quoted.entry # -1

\* C21: at every position just after an opening double quote that the parser
\* reaches, consumeDoubleQuoted (fast path or slow path) returns what the
\* reference reader returns: the same outcome (success, or the same error) and,
\* on success, the same string and the same end position.
C21_QuotedRefinesReference ==
    QuotedReturned =>
        /\ parser.quoted.err = ReferenceQuoted.err
        /\ parser.quoted.err = NoErr =>
              /\ parser.quoted.s = ReferenceQuoted.s
              /\ parser.quoted.pos = ReferenceQuoted.pos

\* C21 as the code has it: consumeDoubleQuoted succeeds exactly when the
\* reference reader does, with the same string and the same end position; when
\* both fail they report the same error, except that with no double quote at
\* all after the opening one consumeDoubleQuoted reports the end of the string
\* where the reference reader reports a bad escape.
C21_QuotedRefinesReferenceAmended ==
    QuotedReturned =>
        /\ (parser.quoted.err = NoErr) <=> (ReferenceQuoted.err = NoErr)
        /\ parser.quoted.err = NoErr =>
              /\ parser.quoted.s = ReferenceQuoted.s
              /\ parser.quoted.pos = ReferenceQuoted.pos
        /\ parser.quoted.err # NoErr =>
              IF IndexByte(Slice(wire.bytes, parser.quoted.entry, Len(wire.bytes)), DQ) = -1
              THEN parser.quoted.err = errEOSInQuoted
              ELSE parser.quoted.err = ReferenceQuoted.err

\* a key without escapes was read on the fast path after the key \ (written
\* with two backslashes before the closing quote) was read on the slow path
C21_Witness ==
    /\ op = "parsing"
    /\ parser.phase = "kv"
    /\ parser.pairs = 1
    /\ <<BS>> \in DOMAIN parser.result
    /\ parser.quoted.s = <<97>>
    /\ parser.quoted.err = NoErr
    /\ parser.p.nextBackslash = -1

\* the places of the pair loop where the next operation is a consumeExpected2
Expected2Phases == {"separator", "kv", "null_nu", "null_ll"}

\* C22: the parser cursor stays inside the input and only moves forward: after
\* every parser operation 0 <= pos <= len(input) and pos is not less than
\* before the operation (the jump of the slow path to the first backslash
\* included), and a consumeExpected2 that returns an error leaves pos as it was.
C22_CursorBounds ==
    [][op = "parsing" =>
        /\ 0 <= parser'.p.pos
        /\ parser'.p.pos <= Len(parser'.p.str)
        /\ parser.p.pos <= parser'.p.pos
        /\ parser'.p.str = parser.p.str
        /\ (parser.phase \in Expected2Phases /\ parser'.err # NoErr) =>
              parser'.p.pos = parser.p.pos]_vars

\* the slow path has jumped from the start of a string to its first backslash,
\* further on
C22_Witness ==
    /\ op = "parsing"
    /\ parser.phase = "escape_loop"
    /\ parser.iterations = 0
    /\ parser.p.pos > parser.entry
    /\ parser.p.pos = parser.p.nextBackslash

\* the index (from 0) of the first backslash of str at or after pos, -1 when
\* there is none
FirstBackslashFrom(str, pos) ==
    IF \E i \in pos..(Len(str) - 1) : str[i + 1] = BS
    THEN CHOOSE i \in pos..(Len(str) - 1) :
            /\ str[i + 1] = BS
            /\ \A j \in pos..(i - 1) : str[j + 1] # BS
    ELSE -1

\* consumeDoubleQuoted is about to be called, for a key or for a value
AtQuotedEntry == op = "parsing" /\ parser.phase \in {"key", "value_string"}

\* C23: at every entry to consumeDoubleQuoted during a parse that has not
\* failed, nextBackslash is -1 exactly when no backslash lies at or after pos,
\* and is otherwise the index of the first backslash at or after pos: it is
\* never an index before pos, so the slice input[pos:nextBackslash] of the slow
\* path is well formed and no parse ends in a slice-bounds panic.
C23_NextBackslashFresh ==
    /\ AtQuotedEntry =>
          /\ parser.p.nextBackslash = FirstBackslashFrom(parser.p.str, parser.p.pos)
          /\ parser.p.nextBackslash # -1 => parser.p.nextBackslash >= parser.p.pos
    /\ op \in {"parsing", "parsed"} => parser.err # Panic

\* a value with an escape is about to be read after a key read on the slow
\* path: the cached position was looked up again and points into the value
C23_Witness ==
    /\ AtQuotedEntry
    /\ parser.phase = "value_string"
    /\ parser.quoted.entry # -1
    /\ parser.quoted.pos - parser.quoted.entry > Len(parser.quoted.s) + 1
    /\ parser.p.nextBackslash = parser.p.pos

\* the capacities valueStrings is made with, to compare the mappings returned
CapacityHints == {0, 1, 2, 3}

\* parseHstoreCompat of the input with valueStrings made with capacity c
parseHstoreCompatWithHint(c) ==
    parseHstoreCompatLoop(newHSP(wire.bytes), EmptyMap, << <<>> >>,
                          [arr |-> 1, len |-> 0, cap |-> c], TRUE)

\* C24: the count of '>' bounds the pairs: at every point of a parse the
\* number of '>' bytes of the input is at least the number of pairs consumed;
\* in parseHstoreCompat the length of valueStrings never exceeds the capacity
\* it was made with, so append never moves it to a new array and every pointer
\* stored points into the one array; and the mapping returned is the same
\* whatever capacity valueStrings is made with.
C24_CapacityEstimate ==
    op \in {"parsing", "parsed"} =>
        /\ parser.pairs <= CountByte(wire.bytes, GT)
        /\ variant = "compat" =>
              /\ parser.vs.len <= CountByte(wire.bytes, GT)
              /\ parser.vs.cap = CountByte(wire.bytes, GT)
              /\ parser.vs.arr = 1
              /\ Len(parser.arrays) = 1
              /\ \A k \in DOMAIN parser.result :
                    parser.result[k] # NilPtr => parser.result[k].arr = 1
        /\ (variant = "compat" /\ op = "parsed" /\ parser.err = NoErr) =>
              \A c \in CapacityHints :
                  /\ parseHstoreCompatWithHint(c).err = NoErr
                  /\ DeepEqualCompat(parseHstoreCompatWithHint(c).h,
                                     HstoreCompat(parser.result, parser.arrays))

\* parseHstoreCompat has returned a mapping of two keys with values, and
\* valueStrings is full: as many strings as the input has '>' bytes
C24_Witness ==
    /\ op = "parsed"
    /\ variant = "compat"
    /\ parser.err = NoErr
    /\ parser.pairs = 2
    /\ Cardinality(DOMAIN parser.result) = 2
    /\ parser.vs.len = 2
    /\ parser.vs.cap = 2

\* the mappings of the two variants correspond: the same keys, and per key
\* both values absent or both present with the same string
Corresponds(h, c) ==
    /\ h.nil = c.nil
    /\ DOMAIN h.m = DOMAIN c.m
    /\ \A k \in DOMAIN h.m : ValueOf("hstore", h, k) = ValueOf("compat", c, k)

\* what the scan plan of each variant returns for the input of this state
HstoreDecoded == ScanWith("hstore", format, wire, newScanType("hstore"))
CompatDecoded == ScanWith("compat", format, wire, newScanType("compat"))

\* C25: the two variants decode identically: for every text input parseHstore
\* and parseHstoreCompat both fail with the same error or both succeed with
\* corresponding mappings, and for every byte buffer the two binary scan plans
\* both fail or both succeed with corresponding mappings.
C25_VariantsDecodeAlike ==
    op \in {"parse_text", "scan_binary"} =>
        /\ format = "text" => HstoreDecoded.err = CompatDecoded.err
        /\ (HstoreDecoded.err = NoErr) <=> (CompatDecoded.err = NoErr)
        /\ HstoreDecoded.err = NoErr => Corresponds(HstoreDecoded.dst, CompatDecoded.dst)

\* the messages whose pairs are well framed, a key occurring twice included
FramedLists == { fs \in FrameLists : \A i \in 1..Len(fs) : WellFramed(fs[i]) }

\* the index of the last pair of the message fs with key k
LastFrame(fs, k) == CHOOSE i \in 1..Len(fs) :
    fs[i].key = k /\ \A j \in (i + 1)..Len(fs) : fs[j].key # k

\* a scan plan of HstoreCompat has delivered a mapping
CompatDelivered ==
    /\ op \in {"parse_text", "scan_binary", "scan_into"}
    /\ variant = "compat"
    /\ err = NoErr

\* C26: the value cells of HstoreCompat are not shared between keys: in every
\* mapping produced by parseHstoreCompat or by the HstoreCompat binary scan,
\* each pointer that is not nil refers to a cell of the one valueStrings array,
\* the cell holds the value decoded for the last occurrence of its key (a later
\* pair has not overwritten the cell of an earlier key), and no two keys hold
\* the same pointer.
C26_CompatCellsNotShared ==
    CompatDelivered =>
        /\ \A k \in DOMAIN target.m :
              target.m[k] # NilPtr =>
                  /\ Len(target.arrays) = 1
                  /\ target.m[k].arr = 1
                  /\ target.m[k].idx \in 1..Len(target.arrays[1])
        /\ \A k1, k2 \in DOMAIN target.m :
              (k1 # k2 /\ target.m[k1] # NilPtr) => target.m[k1] # target.m[k2]
        /\ \A ps \in PairLists :
              (format = "text" /\ wire.bytes = TextOf[ps]) =>
                  /\ DOMAIN target.m = {ps[i].key : i \in 1..Len(ps)}
                  /\ \A k \in DOMAIN target.m :
                        ValueOf("compat", target, k) = ps[LastIndex(ps, k)].value
        /\ \A fs \in FramedLists :
              (format = "binary" /\ wire.bytes = Message(Len(fs), fs)) =>
                  /\ DOMAIN target.m = {fs[i].key : i \in 1..Len(fs)}
                  /\ \A k \in DOMAIN target.m :
                        ValueOf("compat", target, k) =
                            IF fs[LastFrame(fs, k)].valueLen < 0 THEN NullText
                            ELSE NewText(fs[LastFrame(fs, k)].value)

\* parseHstoreCompat has read two keys with values: the keys point at the two
\* cells of valueStrings, the first still holding the first value
C26_Witness ==
    /\ CompatDelivered
    /\ op = "parse_text"
    /\ DOMAIN target.m = { <<97>>, <<BS>> }
    /\ target.m[<<97>>] = Ptr(1, 1)
    /\ target.m[<<BS>>] = Ptr(1, 2)
    /\ target.arrays = << << <<DQ>>, <<BN, BU, BL, BL>> >> >>

\* a scan plan's Scan of an input that is not nil has ended
ScanEnded == op \in {"parse_text", "scan_binary", "scan_into"}

\* C27: a failed scan leaves the target untouched, for all four scan plans:
\* whenever Scan returns a parse or truncation error, ScanHstore /
\* ScanHstoreCompat has not been called and the target holds the mapping it
\* held before the call; on success it has been called exactly once, with the
\* complete mapping.
C27_FailedScanKeepsTarget ==
    ScanEnded =>
        /\ err \notin {NoErr, Panic} => (calls = 0 /\ target = before)
        /\ err = NoErr => (calls = 1 /\ ~target.nil)
        /\ \A ps \in PairLists :
              (format = "text" /\ wire.bytes = TextOf[ps]) =>
                  /\ err = NoErr
                  /\ DOMAIN target.m = {ps[i].key : i \in 1..Len(ps)}
                  /\ \A k \in DOMAIN target.m :
                        ValueOf(variant, target, k) = ps[LastIndex(ps, k)].value
        /\ \A fs \in FramedLists :
              (format = "binary" /\ wire.bytes = Message(Len(fs), fs)) =>
                  /\ err = NoErr
                  /\ DOMAIN target.m = {fs[i].key : i \in 1..Len(fs)}
                  /\ \A k \in DOMAIN target.m :
                        ValueOf(variant, target, k) =
                            IF fs[LastFrame(fs, k)].valueLen < 0 THEN NullText
                            ELSE NewText(fs[LastFrame(fs, k)].value)

\* a message that declares two pairs and holds one was scanned into a target
\* that held the pair x => y: the scan failed after reading a pair, and the
\* target still holds x => y alone
C27_Witness ==
    /\ op = "scan_into"
    /\ format = "binary"
    /\ wire.bytes = <<0, 0, 0, 2, 0, 0, 0, 1, 97, 0, 0, 0, 1, DQ>>
    /\ err = ErrIncomplete
    /\ calls = 0
    /\ DOMAIN before.m = { <<120>> }
    /\ target = before

\* the encoding of the present mapping h of variant v in format f, its pairs
\* in the order o
EncodingOf(f, v, h, o) ==
    IF f = "text" THEN GrammarText(PairsOf(v, h, o))
    ELSE BigEndian32(Cardinality(DOMAIN h.m)) \o BinaryPairsBytes(PairsOf(v, h, o))

\* C28: the encoders only append and never modify their input: for all four
\* encode plans and every present mapping the buffer returned is the bytes of
\* the caller's buf, unchanged, followed by the encoding of the mapping, and
\* the mapping has the same keys and values after the call; for an absent
\* mapping the result is nil whatever buf holds.
C28_EncodersAppend ==
    op = "encode_append" =>
        /\ err = NoErr
        /\ value = ret.input
        /\ IF value.nil THEN wire = NilBytes
           ELSE \E o \in Orders(DOMAIN value.m) :
                    wire.bytes = buf0.bytes \o EncodingOf(format, variant, value, o)

\* the text of a mapping of two pairs was appended to a buffer that held a
\* double quote and a backslash
C28_Witness ==
    /\ op = "encode_append"
    /\ format = "text"
    /\ buf0 = Bytes(<<DQ, BS>>)
    /\ ~value.nil
    /\ Cardinality(DOMAIN value.m) = 2
    /\ Len(wire.bytes) > 2
    /\ SubSeq(wire.bytes, 1, 2) = <<DQ, BS>>

\* what the scan plan of the codec of this state returns for its input
PlanDecoded == ScanWith(variant, format, wire, newScanType(variant))

\* C29: DecodeValue of both codecs: a nil src gives (nil, nil); every src
\* that is not nil and well formed in a supported format gives the decoded
\* mapping and no error (a scan plan is always found for the codec's own
\* target); a malformed src gives the decoder's error and no mapping.
C29_DecodeValue ==
    op = "decode_value" =>
        /\ wire.nil => (ret.nil /\ err = NoErr)
        /\ (~wire.nil /\ PlanDecoded.err \notin {NoErr, Panic}) =>
              (ret.nil /\ err = PlanDecoded.err)
        /\ \A ps \in PairLists :
              (~wire.nil /\ format = "text" /\ wire.bytes = TextOf[ps]) =>
                  /\ err = NoErr
                  /\ ~ret.nil
                  /\ DOMAIN ret.h.m = {ps[i].key : i \in 1..Len(ps)}
                  /\ \A k \in DOMAIN ret.h.m : ret.h.m[k] = ps[LastIndex(ps, k)].value
        /\ \A fs \in FramedLists :
              (~wire.nil /\ format = "binary" /\ wire.bytes = Message(Len(fs), fs)) =>
                  /\ err = NoErr
                  /\ ~ret.nil
                  /\ DOMAIN ret.h.m = {fs[i].key : i \in 1..Len(fs)}
                  /\ \A k \in DOMAIN ret.h.m :
                        ret.h.m[k] = IF fs[LastFrame(fs, k)].valueLen < 0 THEN NullText
                                     ELSE NewText(fs[LastFrame(fs, k)].value)

\* a parse that has begun returns
ParseReturns == (op = "parsing") ~> (op = "parsed")

\* an iteration of the pair loop that reaches its store has moved pos by the
\* 6 bytes of a minimal pair at least
PairLoopAdvances ==
    (op = "parsing" /\ parser.phase = "store") => parser.p.pos >= parser.loopPos + 6

\* neither loop has run more often than the input has bytes
LoopsBounded ==
    op \in {"parsing", "parsed"} =>
        /\ parser.loops <= Len(wire.bytes)
        /\ parser.iterations <= Len(wire.bytes)

\* C30: the text parser terminates: parseHstore and parseHstoreCompat return
\* for every input; every iteration of the pair loop that does not return an
\* error advances pos by at least the 6 bytes of a minimal pair; the
\* escape-copy loop consumes at least one byte per iteration; and neither loop
\* runs more than len(input) times.
C30_ParserTerminates ==
    /\ ParseReturns
    /\ []PairLoopAdvances
    /\ []LoopsBounded
    /\ [][(op = "parsing" /\ parser.phase = "escape_loop") =>
              parser'.p.pos >= parser.p.pos + 1]_vars

\* C30 as the code has it: an iteration of the escape-copy loop that begins
\* before the end of the input consumes at least one byte; the one that begins
\* at the end consumes none and returns the end-of-input error.
C30_ParserTerminatesAmended ==
    /\ ParseReturns
    /\ []PairLoopAdvances
    /\ []LoopsBounded
    /\ [][(op = "parsing" /\ parser.phase = "escape_loop") =>
              IF atEnd(parser.p)
              THEN /\ parser'.p.pos = parser.p.pos
                   /\ parser'.err = errEOSInQuoted
                   /\ op' = "parsed"
              ELSE parser'.p.pos >= parser.p.pos + 1]_vars

\* a parse of two pairs has returned a mapping after both loops ran: two
\* iterations of the pair loop, and iterations of the escape loop
C30_Witness ==
    /\ op = "parsed"
    /\ parser.err = NoErr
    /\ parser.loops = 2
    /\ parser.pairs = 2
    /\ parser.iterations >= 2
    /\ parser.p.pos = Len(wire.bytes)

====
